---------------------------- MODULE Spec2Model ----------------------------
(***************************************************************************)
(* Verification model of ark-circom (circom-compat):                       *)
(*   - the tagged field-element codec of the WASM memory (SafeMemory),     *)
(*   - the witness calculator driving a circom program (V1 and V2 ABI),    *)
(*   - the sectioned-container readers for .r1cs and .zkey files.          *)
(*                                                                         *)
(* Arbitrary-precision integers (num_bigint::BigInt) are modelled the way  *)
(* num_bigint stores them: a sign and a magnitude, the magnitude being a   *)
(* little-endian sequence of bytes without trailing zero bytes.  Memory is *)
(* byte addressed, as the WASM linear memory is.                           *)
(***************************************************************************)
EXTENDS Integers, Sequences, FiniteSets, TLC

VARIABLES
  memory,   \* SafeMemory.memory: the linear memory shared with the program
  codec,    \* the write_fr / read_fr exchange in progress on that memory
  r1cs,     \* R1CSFile::new: the file handed in and what came back
  zkey,     \* read_zkey: the file handed in and what came back
  wc,       \* WitnessCalculator: version, position in calculate_witness, result
  vm,       \* the circom program instance behind the exports
  builder,  \* CircomBuilder: cfg.r1cs, the inputs pushed, what cfg.wtns gave
  circuit,  \* CircomCircuit: r1cs and witness
  cs        \* the constraint system generate_constraints has filled

codecVars == <<memory, codec>>

vars == <<memory, codec, r1cs, zkey, wc, vm, builder, circuit, cs>>

\* The variables each component leaves alone
notCodec == <<r1cs, zkey, wc, vm, builder, circuit, cs>>
notR1cs == <<memory, codec, zkey, wc, vm, builder, circuit, cs>>
notZkey == <<memory, codec, r1cs, wc, vm, builder, circuit, cs>>
notWitness == <<codec, r1cs, zkey, builder, circuit, cs>>
notCircuit == <<memory, codec, r1cs, zkey, wc, vm>>

\* No program has been loaded
NotLoaded == <<>>

\* A reader that has not been handed a file
NoFile == [magic |-> <<>>, version |-> 0, sections |-> <<>>]
ReaderIdle ==
  [phase |-> "idle", file |-> NoFile, result |-> <<>>, converted |-> <<>>]

(***************************************************************************)
(* Magnitudes: little-endian byte sequences (BigUint)                      *)
(***************************************************************************)

\* F applied to the value of e: e is evaluated once, before F is entered
Bind(e, F(_)) == CHOOSE r \in {F(v) : v \in {e}} : TRUE

\* The largest element of a non-empty finite set of integers
SetMax(S) == CHOOSE x \in S : \A y \in S : y <= x

\* BigUint::normalize: drop the most significant zero bytes
MagNorm(s) ==
  LET nz == {i \in 1..Len(s) : s[i] # 0}
  IN IF nz = {} THEN <<>> ELSE SubSeq(s, 1, SetMax(nz))

\* The bytes of s, zero extended (or truncated) to exactly n bytes
MagPad(s, n) == SubSeq([i \in 1..n |-> IF i <= Len(s) THEN s[i] ELSE 0], 1, n)

\* Byte i (1 = least significant) of the magnitude s, 0 beyond its length
ByteAt(s, i) == IF i <= Len(s) THEN s[i] ELSE 0

\* Ordering of two normalized magnitudes: -1, 0 or 1
MagCmp(a, b) ==
  IF Len(a) < Len(b) THEN -1
  ELSE IF Len(a) > Len(b) THEN 1
  ELSE LET d == {i \in 1..Len(a) : a[i] # b[i]}
       IN IF d = {} THEN 0
          ELSE IF a[SetMax(d)] < b[SetMax(d)] THEN -1 ELSE 1

\* The carry into byte i of a + b: some lower byte generates a carry and
\* every byte between propagates it
AddCarry(a, b, i) ==
  IF \E j \in 1..(i - 1) :
        /\ ByteAt(a, j) + ByteAt(b, j) > 255
        /\ \A k \in (j + 1)..(i - 1) : ByteAt(a, k) + ByteAt(b, k) = 255
  THEN 1 ELSE 0

\* a + b
MagAdd(a, b) ==
  LET n == IF Len(a) > Len(b) THEN Len(a) ELSE Len(b)
      f == [i \in 1..(n + 1) |->
              IF i <= n
              THEN (ByteAt(a, i) + ByteAt(b, i) + AddCarry(a, b, i)) % 256
              ELSE AddCarry(a, b, n + 1)]
  IN MagNorm(SubSeq(f, 1, n + 1))

\* The borrow out of the bytes below i in a - b
SubBorrow(a, b, i) ==
  IF \E j \in 1..(i - 1) :
        /\ ByteAt(a, j) < ByteAt(b, j)
        /\ \A k \in (j + 1)..(i - 1) : ByteAt(a, k) = ByteAt(b, k)
  THEN 1 ELSE 0

\* a - b for magnitudes with a >= b
MagSub(a, b) ==
  LET f == [i \in 1..Len(a) |->
              (256 + ByteAt(a, i) - ByteAt(b, i) - SubBorrow(a, b, i)) % 256]
  IN MagNorm(SubSeq(f, 1, Len(a)))

\* (a + b) mod m for a, b < m
MagAddMod(a, b, m) ==
  Bind(MagAdd(a, b), LAMBDA s : IF MagCmp(s, m) >= 0 THEN MagSub(s, m) ELSE s)

\* One step of binary multiplication: 2 * acc + bit * a, mod m
MagMulModBit(a, m, acc, bit) ==
  IF bit = 1
  THEN Bind(MagAddMod(acc, acc, m), LAMBDA dbl : MagAddMod(dbl, a, m))
  ELSE MagAddMod(acc, acc, m)

\* Bit k (0 = least significant) of the byte x
BitOf(x, k) == (x \div (2 ^ k)) % 2

RECURSIVE MagMulModByte(_, _, _, _, _)
\* Eight steps of binary multiplication, from bit k - 1 of byte down to
\* bit 0: acc * 2^k + (byte mod 2^k) * a, mod m
MagMulModByte(a, m, acc, byte, k) ==
  IF k = 0 THEN acc
  ELSE Bind(MagMulModBit(a, m, acc, BitOf(byte, k - 1)),
            LAMBDA nacc : MagMulModByte(a, m, nacc, byte, k - 1))

RECURSIVE MagMulModWord(_, _, _, _, _, _)
\* The bytes hi, hi - 1, ..., lo of b, most significant first
MagMulModWord(a, b, m, hi, lo, acc) ==
  IF hi < lo THEN acc
  ELSE Bind(MagMulModByte(a, m, acc, b[hi], 8),
            LAMBDA nacc : MagMulModWord(a, b, m, hi - 1, lo, nacc))

RECURSIVE MagMulModAt(_, _, _, _, _)
\* Binary (double and add) multiplication over the low k bytes of b, most
\* significant first, four bytes at a time
MagMulModAt(a, b, m, k, acc) ==
  IF k = 0 THEN acc
  ELSE Bind(MagMulModWord(a, b, m, k, IF k > 4 THEN k - 3 ELSE 1, acc),
            LAMBDA nacc : MagMulModAt(a, b, m, IF k > 4 THEN k - 4 ELSE 0, nacc))

RECURSIVE MagMod(_, _)
\* a mod m by repeated subtraction of m (only used when a < a few m)
MagMod(a, m) == IF MagCmp(a, m) >= 0 THEN MagMod(MagSub(a, m), m) ELSE a

\* (a * b) mod m, a < m
MagMulMod(a, b, m) == MagMulModAt(a, b, m, Len(b), <<>>)

\* The carry into byte i of a * k + c (k, c below 256): the low i - 1 bytes
\* of a, times k, plus c, shifted right by i - 1 bytes
RECURSIVE MulCarry(_, _, _, _)
MulCarry(a, k, c, i) ==
  IF i = 1 THEN c
  ELSE Bind(MulCarry(a, k, c, i - 1),
            LAMBDA ci : (ByteAt(a, i - 1) * k + ci) \div 256)

\* a * k + c for a small factor k and a small addend c (both below 256)
MagMulSmall(a, k, c) ==
  LET f == [i \in 1..(Len(a) + 1) |->
              (ByteAt(a, i) * k + MulCarry(a, k, c, i)) % 256]
  IN MagNorm(SubSeq(f, 1, Len(a) + 1))

RECURSIVE MagFromDigitsTo(_, _, _, _)
\* acc extended by the decimal digits ds[i..j]
MagFromDigitsTo(ds, i, j, acc) ==
  IF i > j THEN acc
  ELSE Bind(MagMulSmall(acc, 10, ds[i]),
            LAMBDA nacc : MagFromDigitsTo(ds, i + 1, j, nacc))

RECURSIVE MagFromDigits(_, _, _)
\* The magnitude written as the decimal digits ds, most significant first
\* (parsed ten digits at a time)
MagFromDigits(ds, i, acc) ==
  IF i > Len(ds) THEN acc
  ELSE Bind(MagFromDigitsTo(ds, i, IF i + 9 < Len(ds) THEN i + 9 ELSE Len(ds), acc),
            LAMBDA nacc : MagFromDigits(ds, i + 10, nacc))

(***************************************************************************)
(* BigInt: [sign, mag] with sign in {-1, 0, 1} (Minus, NoSign, Plus)       *)
(***************************************************************************)

\* BigInt::from_biguint: NoSign discards the magnitude, a zero magnitude
\* forces NoSign
from_biguint(sign, data) ==
  IF sign = 0 THEN [sign |-> 0, mag |-> <<>>]
  ELSE IF data = <<>> THEN [sign |-> 0, mag |-> <<>>]
  ELSE [sign |-> sign, mag |-> data]

BigZero == [sign |-> 0, mag |-> <<>>]

\* BigInt::from_str on a string of decimal digits (given as a tuple)
FromStr(ds) == from_biguint(1, MagFromDigits(ds, 1, <<>>))

\* The same with a leading minus sign
FromStrNeg(ds) == from_biguint(-1, MagFromDigits(ds, 1, <<>>))

BigNeg(a) == [sign |-> 0 - a.sign, mag |-> a.mag]

\* a + b
BigAdd(a, b) ==
  IF a.sign = 0 THEN b
  ELSE IF b.sign = 0 THEN a
  ELSE IF a.sign = b.sign THEN [sign |-> a.sign, mag |-> MagAdd(a.mag, b.mag)]
  ELSE LET c == MagCmp(a.mag, b.mag)
       IN IF c = 0 THEN BigZero
          ELSE IF c > 0 THEN [sign |-> a.sign, mag |-> MagSub(a.mag, b.mag)]
          ELSE [sign |-> b.sign, mag |-> MagSub(b.mag, a.mag)]

\* a - b
BigSub(a, b) == BigAdd(a, BigNeg(b))

\* Ord for BigInt: -1, 0, 1
BigCmp(a, b) ==
  IF a.sign < b.sign THEN -1
  ELSE IF a.sign > b.sign THEN 1
  ELSE IF a.sign = 0 THEN 0
  ELSE a.sign * MagCmp(a.mag, b.mag)

BigLt(a, b) == BigCmp(a, b) < 0
BigGt(a, b) == BigCmp(a, b) > 0
BigGe(a, b) == BigCmp(a, b) >= 0

\* 2^(8*k) as a BigInt
BigPow256(k) == [sign |-> 1, mag |-> [i \in 1..(k + 1) |-> IF i = k + 1 THEN 1 ELSE 0]]

\* BigInt from a little-endian byte string (BigUint::from_bytes_le, then into)
BigFromBytes(bytes) == from_biguint(1, MagNorm(bytes))

\* (a * b) % m for non-negative a, b and positive m
BigMulMod(a, b, m) ==
  from_biguint(1, MagMulMod(MagMod(a.mag, m.mag), b.mag, m.mag))

(***************************************************************************)
(* WASM linear memory: zero initialised, byte addressed.  A memory is the  *)
(* function from the addresses holding a non-zero byte to that byte.       *)
(***************************************************************************)

EmptyMemory == [a \in {} |-> 0]

\* One byte of the memory
MemByte(mem, a) == IF a \in DOMAIN mem THEN mem[a] ELSE 0

\* MemoryView::read: n bytes starting at ptr
MemRead(mem, ptr, n) ==
  Bind(mem, LAMBDA m : SubSeq([i \in 1..n |-> MemByte(m, ptr + i - 1)], 1, n))

\* MemoryView::write: the bytes stored from ptr on
MemWrite(mem, ptr, bytes) ==
  Bind(mem, LAMBDA m : Bind(bytes, LAMBDA b :
    LET touched == ptr..(ptr + Len(b) - 1)
        dom == ((DOMAIN m) \ touched)
                 \cup {a \in touched : b[a - ptr + 1] # 0}
        written == [a \in dom |-> IF a \in touched THEN b[a - ptr + 1]
                                  ELSE m[a]]
    IN IF written = EmptyMemory THEN EmptyMemory ELSE written))

\* u32::to_le_bytes of a small (below 2^31) natural number
U32Bytes(n) ==
  <<n % 256, (n \div 256) % 256, (n \div 65536) % 256, (n \div 16777216) % 256>>

\* u32::from_le_bytes, for words below 2^31 (pointers, offsets, sizes)
U32Nat(b) == b[1] + 256 * b[2] + 65536 * b[3] + 16777216 * b[4]

(***************************************************************************)
(* SafeMemory (witness/memory.rs)                                          *)
(***************************************************************************)

\* The scalar field modulus of BN254 (ark_bn254 FrConfig::MODULUS)
FrModulus ==
  FromStr(<<2,1,8,8,8,2,4,2,8,7,1,8,3,9,2,7,5,2,2,2,2,4,6,4,0,5,7,4,5,2,5,7,
            2,7,5,0,8,8,5,4,8,3,6,4,4,0,0,4,1,6,0,3,4,3,4,3,6,9,8,2,0,4,1,8,
            6,5,7,5,8,0,8,4,9,5,6,1,7>>)

\* SafeMemory.prime as the circuit programs of the test vectors report it
\* (0x30644e72e131a029b85045b68181585d2833e84879b9709143e1f593f0000001)
prime == FrModulus

\* 0x8000_0000
short_max == BigFromBytes(<<0, 0, 0, 128>>)

\* from_biguint with Sign::NoSign yields zero, so this is -0x8000_0000
short_min == BigSub(from_biguint(0, FrModulus.mag), short_max)

r_inv ==
  FromStr(<<9,9,1,5,4,9,9,6,1,2,8,3,9,3,2,1,1,4,9,6,3,7,5,2,1,7,7,7,9,9,0,1,
            0,2,1,5,1,3,5,0,6,7,4,5,0,7,9,4,0,7,1,6,0,4,9,5,8,8,4,6,2,3,8,8,
            2,0,0,8,3,9,6,4,9,6,1,4>>)

\* Number of 32-bit words of a field element: (getFrLen >> 2) - 2 for the
\* 40-byte Fr of the BN254 programs
n32 == 8

\* 0x1_0000_0000
Two32 == BigPow256(4)

write_u32(mem, ptr, bytes) == MemWrite(mem, ptr, bytes)

read_u32(mem, ptr) == MemRead(mem, ptr, 4)

read_byte(mem, ptr) == MemByte(mem, ptr)

\* Results of the writers: the memory afterwards, or a panic (expect/unwrap)
Wrote(mem) == [status |-> "ok", mem |-> mem]
Panicked(mem) == [status |-> "panic", mem |-> mem]

write_short_positive(mem, ptr, fr) ==
  IF fr.sign >= 0 /\ BigLt(fr, short_max)
  THEN Wrote(write_u32(write_u32(mem, ptr, MagPad(fr.mag, 4)),
                       ptr + 4, U32Bytes(0)))
  ELSE Panicked(mem)

write_short_negative(mem, ptr, fr) ==
  LET num == BigAdd(BigSub(BigSub(fr, short_min), short_max), Two32)
  IN IF num.sign >= 0 /\ Len(num.mag) <= 4
     THEN Wrote(write_u32(write_u32(mem, ptr, MagPad(num.mag, 4)),
                          ptr + 4, U32Bytes(0)))
     ELSE Panicked(mem)

\* into_parts drops the sign; BigInteger256::try_from fails above 256 bits
write_big(mem, ptr, num) ==
  IF Len(num.mag) <= 32
  THEN Wrote(MemWrite(mem, ptr, MagPad(num.mag, 32)))
  ELSE Panicked(mem)

\* 0x80000000, little endian
LongTag == <<0, 0, 0, 128>>

\* write_long_normal with the tag word stored in the low word of the slot
write_long_normal_TagLow(mem, ptr, fr) ==
  write_big(write_u32(write_u32(mem, ptr + 4, U32Bytes(0)), ptr, LongTag),
            ptr + 8, fr)

write_long_normal(mem, ptr, fr) ==
  write_big(write_u32(write_u32(mem, ptr, U32Bytes(0)), ptr + 4, LongTag),
            ptr + 8, fr)

write_fr(mem, ptr, fr) ==
  IF BigLt(fr, short_max) /\ BigGt(fr, short_min)
  THEN IF BigGe(fr, BigZero)
       THEN write_short_positive(mem, ptr, fr)
       ELSE write_short_negative(mem, ptr, fr)
  ELSE write_long_normal(mem, ptr, fr)

\* Reads num_bytes * 32 bytes and deserializes the first 32 of them
read_big(mem, ptr, num_bytes) ==
  BigFromBytes(SubSeq(MemRead(mem, ptr, num_bytes * 32), 1, 32))

read_fr(mem, ptr) ==
  LET test_byte == read_byte(mem, ptr + 4 + 3)
      test_byte2 == read_byte(mem, ptr + 3)
  IN IF BitOf(test_byte, 7) # 0
     THEN IF BitOf(test_byte, 6) # 0
          THEN BigMulMod(read_big(mem, ptr + 8, n32), r_inv, prime)
          ELSE read_big(mem, ptr + 8, n32)
     ELSE IF BitOf(test_byte2, 6) # 0
          THEN BigSub(BigFromBytes(read_u32(mem, ptr)), Two32)
          ELSE BigFromBytes(read_u32(mem, ptr))

(***************************************************************************)
(* Field elements exchanged through the memory codec                       *)
(***************************************************************************)

\* Number of field elements of each kind offered to write_fr
MaxFrPerKind == 3

\* 2^30 and 2^31 - 1 and their neighbours
Two30 == BigFromBytes(<<0, 0, 0, 64>>)
BigOne == BigFromBytes(<<1>>)

ShortPositive ==
  <<FromStr(<<1,0,0,0,0,0,0>>), BigSub(Two30, BigOne), BigZero, BigOne>>

ShortPositiveHigh ==
  <<Two30, BigSub(short_max, BigOne), BigAdd(Two30, BigOne),
    FromStr(<<2,0,0,0,0,0,0,0,0,0>>)>>

ShortNegative ==
  <<FromStrNeg(<<1,0,0,0,0,0,0>>), BigNeg(Two30), BigNeg(BigOne),
    BigNeg(FromStr(<<3,3>>))>>

ShortNegativeLow ==
  <<BigNeg(BigAdd(Two30, BigOne)), BigNeg(short_max),
    BigNeg(BigSub(short_max, BigOne)), FromStrNeg(<<2,0,0,0,0,0,0,0,0,0>>)>>

LongPositive ==
  <<FromStr(<<5,0,0,0,0,0,0,0,0,0,0,0>>), short_max, BigSub(prime, BigOne),
    BigSub(Two32, BigOne)>>

LongNegative ==
  <<FromStrNeg(<<5,0,0,0,0,0,0,0,0,0,0,0>>), BigNeg(BigAdd(short_max, BigOne)),
    BigNeg(Two32), BigNeg(BigSub(prime, BigOne))>>

\* The first n elements of the tuple t
Prefix(t, n) == {t[i] : i \in 1..(IF n < Len(t) THEN n ELSE Len(t))}

FrValues ==
  Prefix(ShortPositive, MaxFrPerKind) \cup Prefix(ShortPositiveHigh, MaxFrPerKind)
  \cup Prefix(ShortNegative, MaxFrPerKind) \cup Prefix(ShortNegativeLow, MaxFrPerKind)
  \cup Prefix(LongPositive, MaxFrPerKind) \cup Prefix(LongNegative, MaxFrPerKind)

\* 2^256 mod prime: the Montgomery radix of the 4-limb field
MontR == from_biguint(1, MagMod(BigPow256(32).mag, prime.mag))

\* Residues a program leaves in memory in long form: the Montgomery forms of
\* 1 and 2, and a plain residue
VmResidues == {MontR, BigAdd(MontR, MontR), FromStr(<<5,0,0,0,0,0,0,0,0,0,0,0>>)}

\* 0xC0000000: long form with the Montgomery bit
LongMontgomeryTag == <<0, 0, 0, 192>>

\* The pointer the codec tests write to and read from
CodecPtr == 0

NoFr == [sign |-> 0, mag |-> <<255>>]

CodecInit ==
  /\ memory = EmptyMemory
  /\ codec = [phase |-> "idle", val |-> NoFr, tag |-> <<>>, res |-> NoFr]
  /\ r1cs = ReaderIdle
  /\ zkey = ReaderIdle
  /\ wc = NotLoaded
  /\ vm = NotLoaded
  /\ builder = NotLoaded
  /\ circuit = NotLoaded
  /\ cs = NotLoaded

\* mem.write_fr(ptr, &num)
WriteFr(v) ==
  /\ codec.phase = "idle"
  /\ write_fr(memory, CodecPtr, v).status = "ok"
  /\ memory' = write_fr(memory, CodecPtr, v).mem
  /\ codec' = [phase |-> "written", val |-> v, tag |-> <<>>, res |-> NoFr]
  /\ UNCHANGED notCodec

\* The program stores a long-form element (tag word, then the residue)
VmStoreLong(raw, tag) ==
  /\ codec.phase = "idle"
  /\ memory' = MemWrite(MemWrite(MemWrite(memory, CodecPtr, U32Bytes(0)),
                                 CodecPtr + 4, tag),
                        CodecPtr + 8, MagPad(raw.mag, 32))
  /\ codec' = [phase |-> "stored", val |-> raw, tag |-> tag, res |-> NoFr]
  /\ UNCHANGED notCodec

\* mem.read_fr(ptr)
ReadFr ==
  /\ codec.phase \in {"written", "stored"}
  /\ codec' = [codec EXCEPT !.phase = IF codec.phase = "written"
                                      THEN "read" ELSE "loaded",
                            !.res = read_fr(memory, CodecPtr)]
  /\ UNCHANGED memory
  /\ UNCHANGED notCodec

\* The slot is reused for the next element; its bytes stay as they are
CodecNext ==
  /\ codec.phase \in {"read", "loaded"}
  /\ codec' = [phase |-> "idle", val |-> NoFr, tag |-> <<>>, res |-> NoFr]
  /\ UNCHANGED memory
  /\ UNCHANGED notCodec

NextCodec ==
  \/ \E v \in FrValues : WriteFr(v)
  \/ \E raw \in VmResidues, tag \in {LongTag, LongMontgomeryTag} : VmStoreLong(raw, tag)
  \/ ReadFr
  \/ CodecNext

SpecCodec == CodecInit /\ [][NextCodec]_vars

(***************************************************************************)
(* Claims on the memory codec                                              *)
(***************************************************************************)

\* -2^31 <= v < 2^31
InShortRange(v) == BigGe(v, BigNeg(short_max)) /\ BigLt(v, short_max)

\* C1: for every v with -2^31 <= v < 2^31, write_fr(ptr, v) followed by
\* read_fr(ptr) returns exactly v
C1_ShortRoundTrip ==
  (codec.phase = "read" /\ InShortRange(codec.val)) => codec.res = codec.val

\* C2: for every v with 2^31 <= v < modulus, write_fr leaves a zero low word,
\* the tag word 0x80000000 at ptr + 4 and the little-endian residue at
\* ptr + 8, and read_fr returns v; a long element found with the Montgomery
\* bit set is returned divided by the Montgomery radix R = 2^256 modulo the
\* prime (res * R = raw, res reduced), which is raw * r_inv mod prime
C2_LongRoundTrip ==
  /\ (codec.phase = "read" /\ BigGe(codec.val, short_max) /\ BigLt(codec.val, prime))
       => /\ read_u32(memory, CodecPtr) = <<0, 0, 0, 0>>
          /\ read_u32(memory, CodecPtr + 4) = <<0, 0, 0, 128>>
          /\ MemRead(memory, CodecPtr + 8, 32) = MagPad(codec.val.mag, 32)
          /\ codec.res = codec.val
  /\ (codec.phase = "loaded" /\ codec.tag = LongMontgomeryTag)
       => /\ codec.res.sign >= 0
          /\ BigLt(codec.res, prime)
          /\ BigMulMod(MontR, codec.res, prime) = BigMulMod(codec.val, BigOne, prime)
  /\ (codec.phase = "loaded" /\ codec.tag = LongTag) => codec.res = codec.val

\* The element 500000000000 written by write_fr in long form and read back
C2_Witness ==
  /\ codec.phase = "read"
  /\ codec.val = FromStr(<<5,0,0,0,0,0,0,0,0,0,0,0>>)
  /\ read_u32(memory, CodecPtr + 4) = LongTag
  /\ codec.res = codec.val

\* The Montgomery form of 2, left in memory by the program, read back as 2
C2_MontgomeryReached ==
  /\ codec.phase = "loaded"
  /\ codec.tag = LongMontgomeryTag
  /\ codec.val = BigAdd(MontR, MontR)
  /\ codec.res = BigAdd(BigOne, BigOne)

\* C3: for every negative v outside the short range (v <= -2^31),
\* write_fr(ptr, v) followed by read_fr(ptr) returns v
C3_LongNegativeRoundTrip ==
  (codec.phase = "read" /\ codec.val.sign < 0 /\ ~BigGt(codec.val, BigNeg(short_max)))
    => codec.res = codec.val

(***************************************************************************)
(* .r1cs reader (src/circom/r1cs_reader.rs)                                *)
(*                                                                         *)
(* A file is its magic, its version and its section table; each table      *)
(* entry carries the section type, the declared byte size and the content  *)
(* stored at the section's offset.                                         *)
(***************************************************************************)
R1csMagic == <<114, 49, 99, 115>>      \* "r1cs"
ZkeyMagic == <<122, 107, 101, 121>>    \* "zkey"

header_type == 1
constraint_type == 2
wire2label_type == 3

\* hex 010000f0 93f5e143 9170b979 48e83328 5d588181 b64550b8 29a031e1 724e6430
Bn254FrBytes ==
  <<1, 0, 0, 240, 147, 245, 225, 67, 145, 112, 185, 121, 72, 232, 51, 40,
    93, 88, 129, 129, 182, 69, 80, 184, 41, 160, 49, 225, 114, 78, 100, 48>>

\* The base-field modulus of the same curve: 32 bytes, another prime
Bn254FqBytes ==
  <<71, 253, 124, 216, 22, 140, 32, 60, 141, 202, 113, 104, 145, 106, 129, 151,
    93, 88, 129, 129, 182, 69, 80, 184, 41, 160, 49, 225, 114, 78, 100, 48>>

IoOk(v, reads) ==
  [kind |-> "Ok", error |-> "", msg |-> "", value |-> v, table |-> TRUE,
   reads |-> reads]
IoErr(error, msg, table, reads) ==
  [kind |-> "Err", error |-> error, msg |-> msg, value |-> <<>>,
   table |-> table, reads |-> reads]
IoPanic(msg, reads) ==
  [kind |-> "Panic", error |-> "", msg |-> msg, value |-> <<>>, table |-> TRUE,
   reads |-> reads]

\* The section table with the first entry of a type kept
SecIndex_First(sections, sec_type) ==
  CHOOSE i \in 1..Len(sections) :
    /\ sections[i].sec_type = sec_type
    /\ \A j \in 1..(i - 1) : sections[j].sec_type # sec_type

\* HashMap::insert over the section table: the last entry of a type stays
SecIndex(sections, sec_type) ==
  SetMax({i \in 1..Len(sections) : sections[i].sec_type = sec_type})
HasSection(sections, sec_type) ==
  \E i \in 1..Len(sections) : sections[i].sec_type = sec_type
sec_offsets(sections, sec_type) == sections[SecIndex(sections, sec_type)].body
sec_sizes(sections, sec_type) == sections[SecIndex(sections, sec_type)].sec_size

\* Header::new with the comparison of the prime bytes left out
Header_new_AnyPrime(body, size) ==
  IF body.field_size # 32
  THEN IoErr("InvalidData", "This parser only supports 32-byte fields", TRUE, <<>>)
  ELSE IF size # 32 + body.field_size
  THEN IoErr("InvalidData", "Invalid header section size", TRUE, <<>>)
  ELSE IoOk([field_size |-> body.field_size, prime_size |-> body.prime_size,
             n_wires |-> body.n_wires, n_pub_out |-> body.n_pub_out,
             n_pub_in |-> body.n_pub_in, n_prv_in |-> body.n_prv_in,
             n_labels |-> body.n_labels,
             n_constraints |-> body.n_constraints], <<>>)

\* Header::new(reader, size)
Header_new(body, size) ==
  IF body.field_size # 32
  THEN IoErr("InvalidData", "This parser only supports 32-byte fields", TRUE, <<>>)
  ELSE IF size # 32 + body.field_size
  THEN IoErr("InvalidData", "Invalid header section size", TRUE, <<>>)
  ELSE IF body.prime_size # Bn254FrBytes
  THEN IoErr("InvalidData", "This parser only supports bn256", TRUE, <<>>)
  ELSE IoOk([field_size |-> body.field_size, prime_size |-> body.prime_size,
             n_wires |-> body.n_wires, n_pub_out |-> body.n_pub_out,
             n_pub_in |-> body.n_pub_in, n_prv_in |-> body.n_prv_in,
             n_labels |-> body.n_labels,
             n_constraints |-> body.n_constraints], <<>>)

\* read_constraints(reader, header): n_constraints triples of vectors
read_constraints(body, header) ==
  IF header.n_constraints > Len(body)
  THEN IoErr("UnexpectedEof", "failed to fill whole buffer", TRUE, <<>>)
  ELSE IoOk(SubSeq(body, 1, header.n_constraints), <<>>)

\* read_map(reader, size, header)
read_map(body, size, header) ==
  IF size # header.n_wires * 8
  THEN IoErr("InvalidData", "Invalid map section size", TRUE, <<>>)
  ELSE IF header.n_wires > Len(body)
  THEN IoErr("UnexpectedEof", "failed to fill whole buffer", TRUE, <<>>)
  ELSE IF header.n_wires = 0
  THEN IoPanic("index out of bounds", <<>>)
  ELSE IF body[1] # 0
  THEN IoErr("InvalidData", "Wire 0 should always be mapped to 0", TRUE, <<>>)
  ELSE IoOk(SubSeq(body, 1, header.n_wires), <<>>)

\* The error of R1CSFile::new with the sections read so far put on record
After(res, table, reads) == [res EXCEPT !.table = table, !.reads = reads]

\* R1CSFile::new from the section lookups on, a missing wire map read as
\* the empty map
R1CSFile_new_sections_DefaultMap(file) ==
  IF ~HasSection(file.sections, header_type)
  THEN IoErr("InvalidData", "No section offset for header type found", TRUE, <<>>)
  ELSE LET header == Header_new(sec_offsets(file.sections, header_type),
                                sec_sizes(file.sections, header_type))
       IN
  IF header.kind # "Ok"
  THEN After(header, TRUE, <<header_type>>)
  ELSE IF ~HasSection(file.sections, constraint_type)
  THEN IoErr("InvalidData", "No section offset for constraint type found", TRUE,
             <<header_type>>)
  ELSE LET constraints ==
             read_constraints(sec_offsets(file.sections, constraint_type),
                              header.value)
       IN
  IF constraints.kind # "Ok"
  THEN After(constraints, TRUE, <<header_type, constraint_type>>)
  ELSE IF ~HasSection(file.sections, wire2label_type)
  THEN IoOk([version |-> file.version, header |-> header.value,
             constraints |-> constraints.value, wire_mapping |-> <<>>],
            <<header_type, constraint_type>>)
  ELSE LET wire_mapping ==
             read_map(sec_offsets(file.sections, wire2label_type),
                      sec_sizes(file.sections, wire2label_type), header.value)
       IN
  IF wire_mapping.kind # "Ok"
  THEN After(wire_mapping, TRUE, <<header_type, constraint_type, wire2label_type>>)
  ELSE IoOk([version |-> file.version, header |-> header.value,
             constraints |-> constraints.value,
             wire_mapping |-> wire_mapping.value],
            <<header_type, constraint_type, wire2label_type>>)

\* R1CSFile::new from the section lookups on (the table has been scanned)
R1CSFile_new_sections(file) ==
  IF ~HasSection(file.sections, header_type)
  THEN IoErr("InvalidData", "No section offset for header type found", TRUE, <<>>)
  ELSE LET header == Header_new(sec_offsets(file.sections, header_type),
                                sec_sizes(file.sections, header_type))
       IN
  IF header.kind # "Ok"
  THEN After(header, TRUE, <<header_type>>)
  ELSE IF ~HasSection(file.sections, constraint_type)
  THEN IoErr("InvalidData", "No section offset for constraint type found", TRUE,
             <<header_type>>)
  ELSE LET constraints ==
             read_constraints(sec_offsets(file.sections, constraint_type),
                              header.value)
       IN
  IF constraints.kind # "Ok"
  THEN After(constraints, TRUE, <<header_type, constraint_type>>)
  ELSE IF ~HasSection(file.sections, wire2label_type)
  THEN IoErr("InvalidData", "No section offset for wire2label type found", TRUE,
             <<header_type, constraint_type>>)
  ELSE LET wire_mapping ==
             read_map(sec_offsets(file.sections, wire2label_type),
                      sec_sizes(file.sections, wire2label_type), header.value)
       IN
  IF wire_mapping.kind # "Ok"
  THEN After(wire_mapping, TRUE, <<header_type, constraint_type, wire2label_type>>)
  ELSE IoOk([version |-> file.version, header |-> header.value,
             constraints |-> constraints.value,
             wire_mapping |-> wire_mapping.value],
            <<header_type, constraint_type, wire2label_type>>)

\* R1CSFile::new with the version test left out
R1CSFile_new_AnyVersion(file) ==
  IF file.magic # R1csMagic
  THEN IoErr("InvalidData", "Invalid magic number", FALSE, <<>>)
  ELSE R1CSFile_new_sections(file)

\* R1CSFile::new(reader)
R1CSFile_new(file) ==
  IF file.magic # R1csMagic
  THEN IoErr("InvalidData", "Invalid magic number", FALSE, <<>>)
  ELSE IF file.version # 1
  THEN IoErr("InvalidData", "Unsupported version", FALSE, <<>>)
  ELSE R1CSFile_new_sections(file)

(* Files handed to the reader.  Section contents are as long as the counts *)
(* of the header they are read with announce.                              *)
MaxSections == 3

GoodHeader ==
  [field_size |-> 32, prime_size |-> Bn254FrBytes, n_wires |-> 4,
   n_pub_out |-> 1, n_pub_in |-> 0, n_prv_in |-> 2, n_labels |-> 4,
   n_constraints |-> 1]

\* out = a * b over the wires <<one, out, a, b>>
GoodConstraints == << << <<<<2, 1>>>>, <<<<3, 1>>>>, <<<<1, 1>>>> >> >>

R1csSectionPool ==
  { [sec_type |-> header_type, sec_size |-> 64, body |-> GoodHeader],
    [sec_type |-> header_type, sec_size |-> 63,
     body |-> [GoodHeader EXCEPT !.field_size = 31]],
    [sec_type |-> header_type, sec_size |-> 60, body |-> GoodHeader],
    [sec_type |-> header_type, sec_size |-> 64,
     body |-> [GoodHeader EXCEPT !.prime_size = Bn254FqBytes]],
    [sec_type |-> header_type, sec_size |-> 64,
     body |-> [GoodHeader EXCEPT !.n_wires = 0]],
    [sec_type |-> header_type, sec_size |-> 64,
     body |-> [GoodHeader EXCEPT !.n_wires = 1]],
    [sec_type |-> constraint_type, sec_size |-> 120, body |-> GoodConstraints],
    [sec_type |-> constraint_type, sec_size |-> 119, body |-> GoodConstraints],
    [sec_type |-> wire2label_type, sec_size |-> 0, body |-> <<>>],
    [sec_type |-> wire2label_type, sec_size |-> 8, body |-> <<0>>],
    [sec_type |-> wire2label_type, sec_size |-> 32, body |-> <<0, 1, 2, 3>>],
    [sec_type |-> wire2label_type, sec_size |-> 24, body |-> <<0, 1, 2, 3>>],
    [sec_type |-> wire2label_type, sec_size |-> 32, body |-> <<1, 0, 2, 3>>],
    [sec_type |-> 4, sec_size |-> 0, body |-> <<>>] }

R1csFiles ==
  [magic : {R1csMagic, ZkeyMagic}, version : {1, 2},
   sections : UNION {[1..n -> R1csSectionPool] : n \in 0..MaxSections}]

\* Option<T>
None == [some |-> FALSE, v |-> <<>>]
Some(v) == [some |-> TRUE, v |-> v]

\* usize: its arithmetic wraps at UsizeModulus when the build leaves the
\* overflow checks out.  The width is cut to what the checker's integers
\* hold; the counts of a file are far below it.
UsizeModulus == 2 ^ 30

\* From<R1CSFile> for R1CS.  num_variables - num_inputs is a usize
\* subtraction: below zero it panics in a build with overflow checks and
\* wraps in a build without.
R1CS_from(file, overflow_checks) ==
  LET num_inputs == 1 + file.header.n_pub_in + file.header.n_pub_out
      num_variables == file.header.n_wires
  IN IF num_variables < num_inputs /\ overflow_checks
     THEN IoPanic("attempt to subtract with overflow", <<>>)
     ELSE IoOk([num_inputs |-> num_inputs,
                num_aux |-> (num_variables - num_inputs) % UsizeModulus,
                num_variables |-> num_variables,
                constraints |-> file.constraints,
                wire_mapping |-> Some(file.wire_mapping)], <<>>)

R1csInit ==
  /\ r1cs = ReaderIdle
  /\ memory = EmptyMemory
  /\ codec = [phase |-> "idle", val |-> NoFr, tag |-> <<>>, res |-> NoFr]
  /\ zkey = ReaderIdle
  /\ wc = NotLoaded
  /\ vm = NotLoaded
  /\ builder = NotLoaded
  /\ circuit = NotLoaded
  /\ cs = NotLoaded

\* R1CSFile::new(reader) on one file
R1CSFileNew(file) ==
  /\ r1cs.phase = "idle"
  /\ r1cs' = [phase |-> "done", file |-> file, result |-> R1CSFile_new(file),
              converted |-> <<>>]
  /\ UNCHANGED notR1cs

\* R1CSFile::new(reader)?.into(), as CircomConfig::new converts the file
IntoR1CS(overflow_checks) ==
  /\ r1cs.phase = "done"
  /\ r1cs.result.kind = "Ok"
  /\ r1cs' = [r1cs EXCEPT
                !.phase = "converted",
                !.converted = R1CS_from(r1cs.result.value, overflow_checks)]
  /\ UNCHANGED notR1cs

\* A reader is used for one file
NextR1cs ==
  \/ /\ r1cs.phase = "idle"
     /\ \E file \in R1csFiles : R1CSFileNew(file)
  \/ \E overflow_checks \in BOOLEAN : IntoR1CS(overflow_checks)

SpecR1cs == R1csInit /\ [][NextR1cs]_vars

(***************************************************************************)
(* Claims on the .r1cs reader                                              *)
(***************************************************************************)
R1csRequired == {header_type, constraint_type, wire2label_type}
R1csMissing(file) == {t \in R1csRequired : ~HasSection(file.sections, t)}

\* C7: R1CSFile::new returns a file only when the table holds a Header (1),
\* a Constraints (2) and a WireMap (3) section; a file lacking one of them
\* gets an InvalidData error, never an R1CSFile.
C7_SectionCompleteness ==
  r1cs.phase = "done" =>
    /\ r1cs.result.kind = "Ok" => R1csMissing(r1cs.file) = {}
    /\ R1csMissing(r1cs.file) # {} =>
         /\ r1cs.result.kind = "Err"
         /\ r1cs.result.error = "InvalidData"
         /\ r1cs.result.value = <<>>

\* A well-tagged file of version 1 without its wire map has been refused at
\* the wire-map lookup, after the header and the constraints were read
C7_Witness ==
  /\ r1cs.phase = "done"
  /\ r1cs.file.magic = R1csMagic
  /\ r1cs.file.version = 1
  /\ R1csMissing(r1cs.file) = {wire2label_type}
  /\ r1cs.result.kind = "Err"
  /\ r1cs.result.reads = <<header_type, constraint_type>>

\* C9: a magic other than "r1cs" or a version other than 1 is refused with
\* InvalidData before the section table or any section is read.
C9_MagicVersionFirst ==
  (r1cs.phase = "done"
     /\ (r1cs.file.magic # R1csMagic \/ r1cs.file.version # 1)) =>
    /\ r1cs.result.kind = "Err"
    /\ r1cs.result.error = "InvalidData"
    /\ r1cs.result.table = FALSE
    /\ r1cs.result.reads = <<>>

\* A file with the right magic, version 2 and all three sections was refused
C9_Witness ==
  /\ r1cs.phase = "done"
  /\ r1cs.file.magic = R1csMagic
  /\ r1cs.file.version = 2
  /\ R1csMissing(r1cs.file) = {}
  /\ r1cs.result.kind = "Err"
  /\ r1cs.result.msg = "Unsupported version"

(***************************************************************************)
(* .zkey reader (src/zkey.rs)                                              *)
(*                                                                         *)
(* A file is its magic, its version and its section table; each entry      *)
(* carries the section id, the declared length and the content stored at   *)
(* the section's position.                                                 *)
(***************************************************************************)
\* result? : the rest runs on the value, an error or a panic ends the call
Try(res, F(_)) == IF res.kind # "Ok" THEN res ELSE F(res.value)

\* std::str::from_utf8 on a byte sequence
IsCont(b) == b >= 128 /\ b <= 191
RECURSIVE from_utf8_ok(_)
from_utf8_ok(b) ==
  IF Len(b) = 0 THEN TRUE
  ELSE IF b[1] < 128 THEN from_utf8_ok(Tail(b))
  ELSE IF b[1] >= 194 /\ b[1] <= 223
  THEN Len(b) >= 2 /\ IsCont(b[2]) /\ from_utf8_ok(SubSeq(b, 3, Len(b)))
  ELSE IF b[1] >= 224 /\ b[1] <= 239
  THEN /\ Len(b) >= 3 /\ IsCont(b[2]) /\ IsCont(b[3])
       /\ (b[1] = 224 => b[2] >= 160)
       /\ (b[1] = 237 => b[2] <= 159)
       /\ from_utf8_ok(SubSeq(b, 4, Len(b)))
  ELSE IF b[1] >= 240 /\ b[1] <= 244
  THEN /\ Len(b) >= 4 /\ IsCont(b[2]) /\ IsCont(b[3]) /\ IsCont(b[4])
       /\ (b[1] = 240 => b[2] >= 144)
       /\ (b[1] = 244 => b[2] <= 143)
       /\ from_utf8_ok(SubSeq(b, 5, Len(b)))
  ELSE FALSE

\* BinFile::new(reader): the table is scanned, then the magic becomes ftype
BinFile_new(file) ==
  IF ~from_utf8_ok(file.magic)
  THEN IoPanic("unwrap on Err: Utf8Error", <<>>)
  ELSE IoOk([ftype |-> file.magic, version |-> file.version,
             sections |-> file.sections], <<>>)

\* BinFile::get_section(id): sections.get(&id).unwrap()[0]
HasSectionId(bin, id) == \E i \in 1..Len(bin.sections) : bin.sections[i].id = id
get_section(bin, id) ==
  IF ~HasSectionId(bin, id)
  THEN IoPanic("unwrap on None", <<id>>)
  ELSE IoOk(bin.sections[CHOOSE i \in 1..Len(bin.sections) :
                           /\ bin.sections[i].id = id
                           /\ \A j \in 1..(i - 1) : bin.sections[j].id # id],
            <<id>>)

\* deserialize_g1 / deserialize_g2: the all-zero encoding is the identity
deserialize_g1(p) ==
  IF p[1] = 0 /\ p[2] = 0 THEN [infinity |-> TRUE, x |-> 0, y |-> 0]
  ELSE [infinity |-> FALSE, x |-> p[1], y |-> p[2]]

\* deserialize_g1_vec / deserialize_g2_vec(reader, n_vars)
deserialize_vec(body, n_vars) ==
  IF n_vars > Len(body)
  THEN IoErr("IoError", "failed to fill whole buffer", TRUE, <<>>)
  ELSE IoOk([i \in 1..n_vars |-> deserialize_g1(body[i])], <<>>)

\* g1_section / g2_section(num, section_id)
g1_section(bin, num, section_id) ==
  Try(get_section(bin, section_id),
      LAMBDA section : deserialize_vec(section.body, num))

\* HeaderGroth::read: nothing of the header is validated
HeaderGroth_read(body) ==
  IoOk([n8q |-> body.n8q, q |-> body.q, n8r |-> body.n8r, r |-> body.r,
        n_vars |-> body.n_vars, n_public |-> body.n_public,
        domain_size |-> body.domain_size,
        verifying_key |-> [k \in DOMAIN body.vk |-> deserialize_g1(body.vk[k])]],
       <<>>)

\* BinFile::groth_header
groth_header(bin) ==
  Try(get_section(bin, 2), LAMBDA section : HeaderGroth_read(section.body))

\* BinFile::proving_key: sections 2, 3, 5, 6, 7, 8, 9 in this order
proving_key(bin) ==
  Try(groth_header(bin), LAMBDA header :
  Try(g1_section(bin, header.n_public + 1, 3), LAMBDA ic :
  Try(g1_section(bin, header.n_vars, 5), LAMBDA a_query :
  Try(g1_section(bin, header.n_vars, 6), LAMBDA b_g1_query :
  Try(g1_section(bin, header.n_vars, 7), LAMBDA b_g2_query :
  IF header.n_vars < header.n_public + 1
  THEN IoPanic("attempt to subtract with overflow", <<>>)
  ELSE
  Try(g1_section(bin, header.n_vars - header.n_public - 1, 8), LAMBDA l_query :
  Try(g1_section(bin, header.domain_size, 9), LAMBDA h_query :
  IoOk([vk |-> [alpha_g1 |-> header.verifying_key.alpha_g1,
                beta_g2 |-> header.verifying_key.beta_g2,
                gamma_g2 |-> header.verifying_key.gamma_g2,
                delta_g2 |-> header.verifying_key.delta_g2,
                gamma_abc_g1 |-> ic],
        beta_g1 |-> header.verifying_key.beta_g1,
        delta_g1 |-> header.verifying_key.delta_g1,
        a_query |-> a_query, b_g1_query |-> b_g1_query,
        b_g2_query |-> b_g2_query, h_query |-> h_query,
        l_query |-> l_query], <<>>))))))))

\* deserialize_field_fr: the 32 bytes are taken as a Montgomery residue,
\* brought out of Montgomery form, and stored again unchecked
deserialize_field_fr(raw) == BigMulMod(r_inv, raw, prime)

\* One row of a matrix: the (value, signal) pairs pushed for it, in order
MatrixRow(coeffs, matrix, constraint) ==
  LET hits == SelectSeq(coeffs, LAMBDA c : c.matrix = matrix
                                            /\ c.constraint = constraint)
  IN [k \in 1..Len(hits) |-> <<deserialize_field_fr(hits[k].value),
                               hits[k].signal>>]

\* BinFile::matrices keeping the rows after the first n_public ones
matrices_DropFirst(bin) ==
  Try(groth_header(bin), LAMBDA header :
  Try(get_section(bin, 4), LAMBDA section :
  LET num_coeffs == section.body.num_coeffs
      coeffs == section.body.coeffs
      used == SubSeq(coeffs, 1, num_coeffs)
      bad == {k \in 1..num_coeffs :
                \/ k > Len(coeffs)
                \/ coeffs[k].matrix >= 2
                \/ coeffs[k].constraint >= header.domain_size}
      first == CHOOSE k \in bad : \A j \in bad : k <= j
      max_constraint_index ==
        SetMax({0} \cup {coeffs[k].constraint : k \in 1..num_coeffs})
      num_constraints == max_constraint_index - header.n_public
      rows == IF num_constraints < header.domain_size
              THEN num_constraints ELSE header.domain_size
      a == [c \in 1..rows |-> MatrixRow(used, 0, c - 1 + header.n_public)]
      b == [c \in 1..rows |-> MatrixRow(used, 1, c - 1 + header.n_public)]
  IN IF bad # {}
     THEN IF first > Len(coeffs)
          THEN IoErr("IoError", "failed to fill whole buffer", TRUE, <<>>)
          ELSE IoPanic("index out of bounds", <<>>)
     ELSE IF max_constraint_index < header.n_public
     THEN IoPanic("attempt to subtract with overflow", <<>>)
     ELSE IF header.n_vars < header.n_public
     THEN IoPanic("attempt to subtract with overflow", <<>>)
     ELSE IoOk([num_instance_variables |-> header.n_public + 1,
                num_witness_variables |-> header.n_vars - header.n_public,
                num_constraints |-> num_constraints,
                a_num_non_zero |-> Len(SelectSeq(used,
                    LAMBDA c : c.matrix = 0 /\ c.constraint >= header.n_public
                               /\ c.constraint < rows + header.n_public)),
                b_num_non_zero |-> Len(SelectSeq(used,
                    LAMBDA c : c.matrix = 1 /\ c.constraint >= header.n_public
                               /\ c.constraint < rows + header.n_public)),
                c_num_non_zero |-> 0,
                a |-> a, b |-> b, c |-> <<>>], <<>>)))

\* BinFile::matrices: sections 2 and 4
matrices(bin) ==
  Try(groth_header(bin), LAMBDA header :
  Try(get_section(bin, 4), LAMBDA section :
  LET num_coeffs == section.body.num_coeffs
      coeffs == section.body.coeffs
      used == SubSeq(coeffs, 1, num_coeffs)
      bad == {k \in 1..num_coeffs :
                \/ k > Len(coeffs)
                \/ coeffs[k].matrix >= 2
                \/ coeffs[k].constraint >= header.domain_size}
      first == CHOOSE k \in bad : \A j \in bad : k <= j
      max_constraint_index ==
        SetMax({0} \cup {coeffs[k].constraint : k \in 1..num_coeffs})
      num_constraints == max_constraint_index - header.n_public
      rows == IF num_constraints < header.domain_size
              THEN num_constraints ELSE header.domain_size
      a == [c \in 1..rows |-> MatrixRow(used, 0, c - 1)]
      b == [c \in 1..rows |-> MatrixRow(used, 1, c - 1)]
  IN IF bad # {}
     THEN IF first > Len(coeffs)
          THEN IoErr("IoError", "failed to fill whole buffer", TRUE, <<>>)
          ELSE IoPanic("index out of bounds", <<>>)
     ELSE IF max_constraint_index < header.n_public
     THEN IoPanic("attempt to subtract with overflow", <<>>)
     ELSE IF header.n_vars < header.n_public
     THEN IoPanic("attempt to subtract with overflow", <<>>)
     ELSE IoOk([num_instance_variables |-> header.n_public + 1,
                num_witness_variables |-> header.n_vars - header.n_public,
                num_constraints |-> num_constraints,
                a_num_non_zero |-> Len(SelectSeq(used,
                    LAMBDA c : c.matrix = 0 /\ c.constraint < rows)),
                b_num_non_zero |-> Len(SelectSeq(used,
                    LAMBDA c : c.matrix = 1 /\ c.constraint < rows)),
                c_num_non_zero |-> 0,
                a |-> a, b |-> b, c |-> <<>>], <<>>)))

\* read_zkey(reader)
read_zkey(file) ==
  Try(BinFile_new(file), LAMBDA binfile :
  Try(proving_key(binfile), LAMBDA pk :
  Try(matrices(binfile), LAMBDA m :
  IoOk(<<pk, m>>, <<>>))))

(* Files handed to read_zkey: any subset of the section ids, each section  *)
(* with the content snarkjs writes for the circuit out = a * b.            *)
MaxSectionId == 10

NotUtf8Magic == <<255, 254, 0, 1>>

GoodGrothHeader ==
  [n8q |-> 32, q |-> Bn254FqBytes, n8r |-> 32, r |-> Bn254FrBytes,
   n_vars |-> 4, n_public |-> 1, domain_size |-> 4,
   vk |-> [alpha_g1 |-> <<1, 2>>, beta_g1 |-> <<3, 4>>, beta_g2 |-> <<5, 6>>,
           gamma_g2 |-> <<7, 8>>, delta_g1 |-> <<9, 10>>,
           delta_g2 |-> <<11, 12>>]]

\* rows 0 (the constraint) and 1, 2 (the rows snarkjs adds for one and out)
GoodCoeffs ==
  [num_coeffs |-> 4,
   coeffs |-> << [matrix |-> 0, constraint |-> 0, signal |-> 2, value |-> BigOne],
                 [matrix |-> 1, constraint |-> 0, signal |-> 3, value |-> BigOne],
                 [matrix |-> 0, constraint |-> 1, signal |-> 0, value |-> BigOne],
                 [matrix |-> 0, constraint |-> 2, signal |-> 1, value |-> BigOne] >>]

Points(n) == [i \in 1..n |-> <<i, i + 1>>]

ZkeyBody(id) ==
  CASE id = 1 -> [protocol |-> 1]
    [] id = 2 -> GoodGrothHeader
    [] id = 3 -> Points(2)
    [] id = 4 -> GoodCoeffs
    [] id \in {5, 6, 7} -> Points(4)
    [] id = 8 -> <<<<0, 0>>, <<5, 6>>>>
    [] id = 9 -> Points(4)
    [] OTHER -> <<>>

ZkeySection(id) == [id |-> id, size |-> 0, body |-> ZkeyBody(id)]

\* The sections of a set of ids, in ascending order of id
ZkeySections(S) ==
  [i \in 1..Cardinality(S) |->
     ZkeySection(CHOOSE id \in S : Cardinality({j \in S : j < id}) = i - 1)]

ZkeyMagics == {ZkeyMagic, R1csMagic, NotUtf8Magic}
ZkeyVersions == {1, 2}
ZkeyFile(magic, version, S) ==
  [magic |-> magic, version |-> version, sections |-> ZkeySections(S)]

\* A header for three wires, none of them public
NoPublicHeader == [GoodGrothHeader EXCEPT !.n_vars = 3, !.n_public = 0]

Coeff(matrix, constraint, signal, value) ==
  [matrix |-> matrix, constraint |-> constraint, signal |-> signal,
   value |-> BigFromBytes(<<value>>)]

\* Coefficient sections: several entries in one row, rows of both matrices
\* past the constraints, no row past the public ones, a count past the
\* entries, a matrix and a row that do not exist
ZkeyCoeffBodies ==
  { GoodCoeffs,
    [num_coeffs |-> 6,
     coeffs |-> << Coeff(0, 0, 2, 1), Coeff(1, 0, 3, 1), Coeff(0, 1, 0, 1),
                   Coeff(0, 0, 3, 5), Coeff(1, 2, 1, 7), Coeff(0, 0, 1, 3) >>],
    [num_coeffs |-> 3,
     coeffs |-> << Coeff(0, 3, 1, 1), Coeff(0, 1, 2, 3), Coeff(1, 1, 3, 5),
                   Coeff(0, 0, 0, 7) >>],
    [num_coeffs |-> 1, coeffs |-> << Coeff(0, 0, 2, 1) >>],
    [num_coeffs |-> 0, coeffs |-> << >>],
    [num_coeffs |-> 2, coeffs |-> << Coeff(0, 0, 2, 1) >>],
    [num_coeffs |-> 1, coeffs |-> << Coeff(2, 0, 2, 1) >>],
    [num_coeffs |-> 1, coeffs |-> << Coeff(0, 4, 2, 1) >>] }

\* The complete file with a second header and a second coefficient
\* section, before or after the others
ZkeyRepeatFile(header, body, before) ==
  LET more == << [id |-> 2, size |-> 0, body |-> header],
                 [id |-> 4, size |-> 0, body |-> body] >>
  IN [magic |-> ZkeyMagic, version |-> 1,
      sections |-> IF before THEN more \o ZkeySections(1..MaxSectionId)
                   ELSE ZkeySections(1..MaxSectionId) \o more]

ZkeyInit ==
  /\ zkey = ReaderIdle
  /\ memory = EmptyMemory
  /\ codec = [phase |-> "idle", val |-> NoFr, tag |-> <<>>, res |-> NoFr]
  /\ r1cs = ReaderIdle
  /\ wc = NotLoaded
  /\ vm = NotLoaded
  /\ builder = NotLoaded
  /\ circuit = NotLoaded
  /\ cs = NotLoaded

\* read_zkey(reader) on one file
ReadZkey(file) ==
  /\ zkey.phase = "idle"
  /\ zkey' = [phase |-> "done", file |-> file, result |-> read_zkey(file)]
  /\ UNCHANGED notZkey

NextZkey ==
  \/ \E magic \in ZkeyMagics, version \in ZkeyVersions,
        S \in SUBSET (1..MaxSectionId) :
       ReadZkey(ZkeyFile(magic, version, S))
  \/ \E header \in {GoodGrothHeader, NoPublicHeader},
        body \in ZkeyCoeffBodies, before \in BOOLEAN :
       ReadZkey(ZkeyRepeatFile(header, body, before))

SpecZkey == ZkeyInit /\ [][NextZkey]_vars

(***************************************************************************)
(* Claims on the .zkey reader                                              *)
(***************************************************************************)
ZkeyRequired == 2..9
ZkeyMissing(file) ==
  {id \in ZkeyRequired : \A i \in 1..Len(file.sections) : file.sections[i].id # id}

\* C8: read_zkey on a file lacking one of the sections 2..9 returns a parse
\* error value; it does not crash.
C8_MissingSectionIsError ==
  (zkey.phase = "done" /\ ZkeyMissing(zkey.file) # {}) =>
    zkey.result.kind = "Err"

\* C10: a .zkey file whose magic is not "zkey" or whose version is not 1 is
\* refused by read_zkey: no proving key comes out of it.
C10_MagicVersionChecked ==
  (zkey.phase = "done"
     /\ (zkey.file.magic # ZkeyMagic \/ zkey.file.version # 1)) =>
    zkey.result.kind # "Ok"

\* Every file has been answered with a key, an error or a panic
ZkeyTypeOK ==
  zkey.phase = "done" => zkey.result.kind \in {"Ok", "Err", "Panic"}

(***************************************************************************)
(* The circom program behind the exports (witness/circom.rs).              *)
(*                                                                         *)
(* The program computes out = a * b; its signals are <<one, out, a, b>>,   *)
(* numbered from 0, and a and b are its inputs.  Signals the host has not  *)
(* set are zero.  The program runs when its last input has been set.       *)
(***************************************************************************)
\* witness/mod.rs fnv: the FNV-1a 64 hash of the name as (msb, lsb)
fnv(name) ==
  CASE name = "a" -> << <<76, 220, 99, 175>>, <<140, 236, 1, 134>> >>
    [] name = "b" -> << <<76, 223, 99, 175>>, <<165, 241, 1, 134>> >>
    [] name = "foo" -> << <<24, 117, 178, 220>>, <<119, 213, 217, 254>> >>

\* The program's hash table: the signal a name hash stands for, 0 if none
VmSignalOf(h) == IF h = fnv("a") THEN 2 ELSE IF h = fnv("b") THEN 3 ELSE 0

VmInputs == {2, 3}
VmNVars == 4

\* Where the V1 program keeps its signals, and its free memory at load
SignalBase == 64
FreeStart == 1024
FrSize == n32 * 4 + 8

\* The V1 program stores a field element: short form below 2^31, else long
VmStoreFr(mem, ptr, v) ==
  IF BigLt(v, short_max)
  THEN MemWrite(mem, ptr, MagPad(v.mag, 4) \o U32Bytes(0))
  ELSE MemWrite(mem, ptr, U32Bytes(0) \o LongTag \o MagPad(v.mag, 32))

\* The V1 program loads a field element the host left in memory
VmLoadFr(mem, ptr) ==
  Bind(mem, LAMBDA m :
    IF BitOf(MemByte(m, ptr + 7), 7) # 0
    THEN IF BitOf(MemByte(m, ptr + 7), 6) # 0
         THEN BigMulMod(BigFromBytes(MemRead(m, ptr + 8, 32)), r_inv, prime)
         ELSE BigMulMod(BigFromBytes(MemRead(m, ptr + 8, 32)), BigOne, prime)
    ELSE IF BitOf(MemByte(m, ptr + 3), 7) # 0
         THEN BigAdd(prime, BigSub(BigFromBytes(MemRead(m, ptr, 4)), Two32))
         ELSE BigFromBytes(MemRead(m, ptr, 4)))

\* The V1 program's signals as they lie in memory
VmSync(mem, signals) ==
  VmStoreFr(VmStoreFr(VmStoreFr(VmStoreFr(mem,
      SignalBase, signals[1]),
      SignalBase + FrSize, signals[2]),
      SignalBase + 2 * FrSize, signals[3]),
      SignalBase + 3 * FrSize, signals[4])

\* export init(sanity_check)
VmInit(shared) ==
  [signals |-> <<BigOne, BigZero, BigZero, BigZero>>, unset |-> VmInputs,
   shared |-> shared]

\* The circuit: out = a * b
VmRun(signals) ==
  [signals EXCEPT ![2] = BigMulMod(signals[3], signals[4], prime)]

\* A signal is set; the circuit runs only if the input set last is b
VmSet_LastInput(v, idx, value) ==
  LET signals == [v.signals EXCEPT ![idx + 1] = value]
      unset == v.unset \ {idx}
  IN [v EXCEPT !.signals = IF unset = {} /\ idx = 3 THEN VmRun(signals)
                           ELSE signals,
               !.unset = unset]

\* A signal is set; the circuit runs once no input is left unset
VmSet(v, idx, value) ==
  LET signals == [v.signals EXCEPT ![idx + 1] = value]
      unset == v.unset \ {idx}
  IN [v EXCEPT !.signals = IF unset = {} THEN VmRun(signals) ELSE signals,
               !.unset = unset]

\* to_array32 with the least significant word first
to_array32_LeastFirst(s, size) ==
  IF s.sign < 0 \/ Len(s.mag) > 4 * size
  THEN [status |-> "panic", arr |-> <<>>]
  ELSE [status |-> "ok",
        arr |-> [k \in 1..size |->
                   SubSeq(MagPad(s.mag, 4 * size), 4 * (k - 1) + 1, 4 * k)]]

\* to_array32(s, size): size words, most significant first
to_array32(s, size) ==
  IF s.sign < 0 \/ Len(s.mag) > 4 * size
  THEN [status |-> "panic", arr |-> <<>>]
  ELSE [status |-> "ok",
        arr |-> [k \in 1..size |->
                   SubSeq(MagPad(s.mag, 4 * size), 4 * (size - k) + 1,
                          4 * (size - k) + 4)]]

\* from_array32(arr): res = res * 2^32 + val over the words in order
from_array32(arr) ==
  BigFromBytes([b \in 1..(4 * Len(arr)) |->
                  arr[Len(arr) - ((b - 1) \div 4)][((b - 1) % 4) + 1]])

\* The value the V2 program finds in its shared buffer (word 0 lowest)
VmSharedValue(shared) ==
  BigFromBytes([b \in 1..(4 * Len(shared)) |->
                  shared[((b - 1) \div 4) + 1][((b - 1) % 4) + 1]])

\* export getWitness(i): the signal goes to the shared buffer, word 0 lowest
VmSharedOf(value) ==
  [j \in 1..n32 |-> SubSeq(MagPad(value.mag, 4 * n32), 4 * (j - 1) + 1, 4 * j)]

(***************************************************************************)
(* WitnessCalculator (witness/witness_calculator.rs)                       *)
(*                                                                         *)
(* calculate_witness is followed export call by export call; wc.trace      *)
(* lists the exports called and the host callbacks the program invoked     *)
(* during the computation in progress.                                     *)
(***************************************************************************)
MaxInputs == 2
MaxCalls == 2

Fr3 == BigFromBytes(<<3>>)
Fr11 == BigFromBytes(<<11>>)

\* prime - 1: eight words, no two of them alike
FrMinusOne == from_biguint(1, [Bn254FrBytes EXCEPT ![1] = 0])

\* Named inputs: the circuit's a and b, and foo, which it does not have
WitnessEntries ==
  {[name |-> "a", values |-> <<Fr3>>],
   [name |-> "a", values |-> <<FrMinusOne>>],
   [name |-> "b", values |-> <<Fr11>>], [name |-> "foo", values |-> <<Fr11>>]}
WitnessInputs == UNION {[1..n -> WitnessEntries] : n \in 0..MaxInputs}

Rep(n, x) == [k \in 1..n |-> x]
ZeroShared == Rep(n32, U32Bytes(0))
NoResult == [kind |-> "None", w |-> <<>>]

WcIdle(exports, version, calls) ==
  [exports |-> exports, circom_version |-> version, pc |-> "idle",
   given |-> <<>>,
   inputs |-> <<>>, hash |-> <<>>,
   values |-> <<>>, vi |-> 0, start_free_pos |-> 0, old_mem_free_pos |-> 0,
   p_sig_offset |-> 0, p_fr |-> 0, sig_offset |-> 0, n_vars |-> 0, i |-> 0,
   w |-> <<>>, result |-> NoResult, trace |-> <<>>, calls |-> calls]

\* SafeMemory::free_pos, set_free_pos
free_pos(mem) == U32Nat(read_u32(mem, 0))
set_free_pos(mem, ptr) == write_u32(mem, 0, U32Bytes(ptr))

\* alloc_u32 with the free position advanced by the four bytes of the word
alloc_u32_Word(mem) ==
  Bind(mem, LAMBDA m :
    [p |-> free_pos(m), mem |-> set_free_pos(m, free_pos(m) + 4)])

\* SafeMemory::alloc_u32, alloc_fr: the pointer handed out, the memory after
alloc_u32(mem) ==
  Bind(mem, LAMBDA m :
    [p |-> free_pos(m), mem |-> set_free_pos(m, free_pos(m) + 8)])
alloc_fr(mem) ==
  Bind(mem, LAMBDA m :
    [p |-> free_pos(m), mem |-> set_free_pos(m, free_pos(m) + n32 * 4 + 8)])

\* The computation ends: calculate_witness returns result
Return(kind, w, trace) ==
  [wc EXCEPT !.pc = "done", !.result = [kind |-> kind, w |-> w],
             !.trace = trace]

\* The getVersion export of the programs loaded: none, or the value it returns
MaxVersion == 3
GetVersionExports == {<<>>} \cup {<<v>> : v \in 0..MaxVersion}

\* CircomBase::get_version with 2 as the version of a program without the export
get_version_Default2(exports) == IF exports = <<>> THEN 2 ELSE exports[1]

\* CircomBase::get_version: the export's value, 1 if the export is absent
get_version(exports) == IF exports = <<>> THEN 1 ELSE exports[1]

\* A compiled module, not yet instantiated
WitnessInit ==
  /\ \E exports \in GetVersionExports :
       wc = [WcIdle(exports, 0, 0) EXCEPT !.pc = "unloaded"]
  /\ memory = EmptyMemory
  /\ vm = NotLoaded
  /\ builder = NotLoaded
  /\ circuit = NotLoaded
  /\ cs = NotLoaded
  /\ codec = [phase |-> "idle", val |-> NoFr, tag |-> <<>>, res |-> NoFr]
  /\ r1cs = ReaderIdle
  /\ zkey = ReaderIdle

\* WitnessCalculator::from_module: the program is instantiated and the
\* version its getVersion export gives selects the constructor; a version
\* other than 1 and 2 ends in panic!("Unknown Circom version")
FromModule ==
  /\ wc.pc = "unloaded"
  /\ LET version == get_version(wc.exports)
     IN IF version \in {1, 2}
        THEN /\ wc' = WcIdle(wc.exports, version, 0)
             /\ vm' = VmInit(ZeroShared)
             /\ memory' =
                  IF version = 1
                  THEN VmSync(MemWrite(EmptyMemory, 0, U32Bytes(FreeStart)),
                              VmInit(ZeroShared).signals)
                  ELSE EmptyMemory
        ELSE /\ wc' = [wc EXCEPT !.pc = "failed",
                                 !.result = [kind |-> "Panic", w |-> <<>>]]
             /\ vm' = VmInit(ZeroShared)
             /\ UNCHANGED memory
  /\ UNCHANGED notWitness

\* calculate_witness(inputs, sanity_check): init, then the dispatch
CalculateWitness(inputs) ==
  /\ wc.pc = "idle"
  /\ wc.calls < MaxCalls
  /\ vm' = VmInit(vm.shared)
  /\ memory' = IF wc.circom_version = 1 THEN VmSync(memory, vm'.signals)
               ELSE memory
  /\ wc' = [WcIdle(wc.exports, wc.circom_version, wc.calls + 1) EXCEPT
              !.pc = IF wc.circom_version = 2 THEN "v2_begin" ELSE "v1_begin",
              !.given = inputs,
              !.inputs = inputs,
              !.start_free_pos = free_pos(memory),
              !.trace = <<"init">>]
  /\ UNCHANGED notWitness

\* calculate_witness_circom1: init, the checkpoint and the two scratch slots
V1Begin ==
  /\ wc.pc = "v1_begin"
  /\ vm' = VmInit(vm.shared)
  /\ LET initialised == VmSync(memory, vm'.signals)
         p_sig_offset == alloc_u32(initialised)
         p_fr == alloc_fr(p_sig_offset.mem)
     IN /\ memory' = p_fr.mem
        /\ wc' = [wc EXCEPT !.pc = "v1_inputs",
                            !.old_mem_free_pos = free_pos(initialised),
                            !.p_sig_offset = p_sig_offset.p,
                            !.p_fr = p_fr.p,
                            !.trace = Append(wc.trace, "init")]
  /\ UNCHANGED notWitness

\* get_signal_offset32 for the next name, then read_u32(p_sig_offset); an
\* unknown hash makes the program call the error import, which traps
V1GetSignalOffset ==
  /\ wc.pc = "v1_inputs"
  /\ wc.inputs # <<>>
  /\ LET input == Head(wc.inputs)
         signal == VmSignalOf(fnv(input.name))
         trace == Append(wc.trace, "getSignalOffset32")
     IN IF signal = 0
        THEN /\ wc' = Return("Err", <<>>, Append(trace, "error"))
             /\ UNCHANGED memory
        ELSE /\ memory' = write_u32(memory, wc.p_sig_offset, U32Bytes(signal))
             /\ wc' = [wc EXCEPT
                         !.pc = IF input.values = <<>> THEN "v1_inputs"
                                ELSE "v1_values",
                         !.inputs = Tail(wc.inputs),
                         !.hash = fnv(input.name),
                         !.sig_offset = U32Nat(read_u32(memory', wc.p_sig_offset)),
                         !.values = input.values,
                         !.vi = 0,
                         !.trace = trace]
  /\ UNCHANGED <<vm, notWitness>>

\* write_fr(p_fr, value), then set_signal(0, 0, sig_offset + i, p_fr); a
\* signal that is no unset input makes the program call the error import
V1SetSignal ==
  /\ wc.pc = "v1_values"
  /\ \E written \in {write_fr(memory, wc.p_fr, Head(wc.values))} :
     LET signal == wc.sig_offset + wc.vi
         trace == Append(wc.trace, "setSignal")
     IN IF written.status # "ok"
        THEN /\ wc' = Return("Panic", <<>>, wc.trace)
             /\ UNCHANGED <<memory, vm>>
        ELSE IF signal \notin vm.unset
        THEN /\ memory' = written.mem
             /\ wc' = Return("Err", <<>>, Append(trace, "error"))
             /\ UNCHANGED vm
        ELSE /\ vm' = VmSet(vm, signal, VmLoadFr(written.mem, wc.p_fr))
             /\ memory' = VmSync(written.mem, vm'.signals)
             /\ wc' = [wc EXCEPT
                         !.pc = IF Tail(wc.values) = <<>> THEN "v1_inputs"
                                ELSE "v1_values",
                         !.values = Tail(wc.values),
                         !.vi = wc.vi + 1,
                         !.trace = trace]
  /\ UNCHANGED notWitness

\* get_n_vars, once every input has been handed over
V1GetNVars ==
  /\ wc.pc = "v1_inputs"
  /\ wc.inputs = <<>>
  /\ wc' = [wc EXCEPT !.pc = "v1_witness", !.n_vars = VmNVars, !.i = 0,
                      !.trace = Append(wc.trace, "getNVars")]
  /\ UNCHANGED <<memory, vm, notWitness>>

\* get_ptr_witness(i), then read_fr at the pointer
V1ReadWitness ==
  /\ wc.pc = "v1_witness"
  /\ wc.i < wc.n_vars
  /\ wc' = [wc EXCEPT !.i = wc.i + 1,
                      !.w = Append(wc.w, read_fr(memory, SignalBase + wc.i * FrSize)),
                      !.trace = Append(wc.trace, "getPWitness")]
  /\ UNCHANGED <<memory, vm, notWitness>>

\* set_free_pos(old_mem_free_pos); Ok(w)
V1Finish ==
  /\ wc.pc = "v1_witness"
  /\ wc.i = wc.n_vars
  /\ memory' = set_free_pos(memory, wc.old_mem_free_pos)
  /\ wc' = Return("Ok", wc.w, wc.trace)
  /\ UNCHANGED <<vm, notWitness>>

\* calculate_witness_circom2: init, then get_field_num_len32
V2Begin ==
  /\ wc.pc = "v2_begin"
  /\ vm' = VmInit(vm.shared)
  /\ wc' = [wc EXCEPT !.pc = "v2_inputs",
                      !.trace = wc.trace \o <<"init", "getFieldNumLen32">>]
  /\ UNCHANGED <<memory, notWitness>>

\* The inputs left once the names without a value to hand over are passed
RECURSIVE SkipEmpty(_)
SkipEmpty(inputs) ==
  IF inputs = <<>> THEN <<>>
  ELSE IF Head(inputs).values = <<>> THEN SkipEmpty(Tail(inputs))
  ELSE inputs

\* One value of one name: to_array32, n32 write_shared_rw_memory calls, then
\* set_input_signal(msb, lsb, i).  For a hash it does not know, or a signal
\* already set, the program calls the exceptionHandler import, which
\* returns, and the export returns normally.
V2SetInputSignal ==
  /\ wc.pc = "v2_inputs"
  /\ SkipEmpty(wc.inputs) # <<>>
  /\ LET inputs == SkipEmpty(wc.inputs)
         input == Head(inputs)
         vi == wc.vi
         f_arr == to_array32(Head(input.values), n32)
         shared == [j \in 1..n32 |-> f_arr.arr[n32 - (j - 1)]]
         signal == VmSignalOf(fnv(input.name))
         known == signal # 0 /\ (signal + vi) \in vm.unset
         trace == wc.trace \o Rep(n32, "writeSharedRWMemory") \o <<"setInputSignal">>
     IN IF f_arr.status # "ok"
        THEN /\ wc' = Return("Panic", <<>>, wc.trace)
             /\ UNCHANGED vm
        ELSE /\ vm' = IF known
                      THEN VmSet([vm EXCEPT !.shared = shared], signal + vi,
                                 VmSharedValue(shared))
                      ELSE [vm EXCEPT !.shared = shared]
             /\ wc' = [wc EXCEPT
                         !.inputs = IF Tail(input.values) = <<>> THEN Tail(inputs)
                                    ELSE <<[input EXCEPT !.values = Tail(input.values)]>>
                                         \o Tail(inputs),
                         !.hash = fnv(input.name),
                         !.vi = IF Tail(input.values) = <<>> THEN 0 ELSE vi + 1,
                         !.trace = IF known THEN trace
                                   ELSE Append(trace, "exceptionHandler")]
  /\ UNCHANGED <<memory, notWitness>>

\* get_witness_size, once every input has been handed over
V2GetWitnessSize ==
  /\ wc.pc = "v2_inputs"
  /\ SkipEmpty(wc.inputs) = <<>>
  /\ wc' = [wc EXCEPT !.pc = "v2_witness", !.inputs = <<>>,
                      !.n_vars = VmNVars, !.i = 0,
                      !.trace = Append(wc.trace, "getWitnessSize")]
  /\ UNCHANGED <<memory, vm, notWitness>>

\* get_witness(i), n32 read_shared_rw_memory calls, from_array32
V2GetWitness ==
  /\ wc.pc = "v2_witness"
  /\ wc.i < wc.n_vars
  /\ vm' = [vm EXCEPT !.shared = VmSharedOf(vm.signals[wc.i + 1])]
  /\ LET arr == [k \in 1..n32 |-> vm'.shared[n32 - (k - 1)]]
     IN wc' = [wc EXCEPT !.i = wc.i + 1,
                         !.w = Append(wc.w, from_array32(arr)),
                         !.trace = wc.trace \o <<"getWitness">>
                                   \o Rep(n32, "readSharedRWMemory")]
  /\ UNCHANGED <<memory, notWitness>>

\* Ok(w)
V2Finish ==
  /\ wc.pc = "v2_witness"
  /\ wc.i = wc.n_vars
  /\ wc' = Return("Ok", wc.w, wc.trace)
  /\ UNCHANGED <<memory, vm, notWitness>>

\* The caller has the result; the instance is ready for the next call
WitnessReturned ==
  /\ wc.pc = "done"
  /\ wc' = WcIdle(wc.exports, wc.circom_version, wc.calls)
  /\ UNCHANGED <<memory, vm, notWitness>>

NextWitness ==
  \/ FromModule
  \/ \E inputs \in WitnessInputs : CalculateWitness(inputs)
  \/ V1Begin
  \/ V1GetSignalOffset
  \/ V1SetSignal
  \/ V1GetNVars
  \/ V1ReadWitness
  \/ V1Finish
  \/ V2Begin
  \/ V2SetInputSignal
  \/ V2GetWitnessSize
  \/ V2GetWitness
  \/ V2Finish
  \/ WitnessReturned

SpecWitness == WitnessInit /\ [][NextWitness]_vars

\* Every computation ends with a witness, an error or a panic
WitnessTypeOK ==
  /\ wc.pc \in {"unloaded", "failed", "idle", "v1_begin", "v1_inputs", "v1_values", "v1_witness",
                "v2_begin", "v2_inputs", "v2_witness", "done"}
  /\ wc.pc = "done" => wc.result.kind \in {"Ok", "Err", "Panic"}

(***************************************************************************)
(* Claims on the witness calculator                                        *)
(***************************************************************************)
\* The inputs given to the computation name a signal the circuit lacks
UnknownNameGiven ==
  \E k \in 1..Len(wc.given) : VmSignalOf(fnv(wc.given[k].name)) = 0

\* C4: when the inputs of calculate_witness contain a name that is not a
\* signal of the circuit, the computation returns an error and no witness
\* vector, on the V1 and on the V2 calling convention.
C4_UnknownInputName ==
  (wc.pc = "done" /\ UnknownNameGiven) =>
    /\ wc.result.kind = "Err"
    /\ wc.result.w = <<>>

\* C5: once the program has invoked a host error callback (error, or the
\* Circom-2 exceptionHandler), the computation has ended with Err: nothing
\* follows the callback in the computation's trace.
C5_ErrorCallbackUnwinds ==
  \A k \in 1..Len(wc.trace) :
    wc.trace[k] \in {"error", "exceptionHandler"} =>
      /\ k = Len(wc.trace)
      /\ wc.pc = "done"
      /\ wc.result.kind = "Err"

\* C6: after every V1 witness computation, whatever its inputs and outcome,
\* the free-position word at offset 0 has the value it had before the
\* computation; between calls it is where it was when the program was loaded.
C6_BumpPointerRestored ==
  wc.circom_version = 1 =>
    /\ wc.pc = "done" => free_pos(memory) = wc.start_free_pos
    /\ wc.pc = "idle" => free_pos(memory) = FreeStart

(***************************************************************************)
(* Claims on the header and the sections of the constraint description     *)
(***************************************************************************)
\* The reader has got as far as the header section of the file
R1csHeaderRead ==
  /\ r1cs.phase = "done"
  /\ r1cs.file.magic = R1csMagic
  /\ r1cs.file.version = 1
  /\ HasSection(r1cs.file.sections, header_type)

R1csHeaderBody == sec_offsets(r1cs.file.sections, header_type)

\* C11: a header whose field width is not 32 bytes, or whose prime is not
\* the hardcoded one, is answered with an InvalidData error; every header
\* of an accepted file has the width 32 and the hardcoded prime.
C11_CurvePin ==
  /\ (R1csHeaderRead /\ (R1csHeaderBody.field_size # 32
                          \/ R1csHeaderBody.prime_size # Bn254FrBytes)) =>
       (r1cs.result.kind = "Err" /\ r1cs.result.error = "InvalidData")
  /\ (r1cs.phase = "done" /\ r1cs.result.kind = "Ok") =>
       /\ r1cs.result.value.header.field_size = 32
       /\ r1cs.result.value.header.prime_size = Bn254FrBytes

\* A header of width 32 and the right section size with another prime has
\* been refused for its prime
C11_Witness ==
  /\ R1csHeaderRead
  /\ R1csHeaderBody.field_size = 32
  /\ R1csHeaderBody.prime_size = Bn254FqBytes
  /\ r1cs.result.kind = "Err"
  /\ r1cs.result.msg = "This parser only supports bn256"

\* The reader has got as far as the wire map section of the file
R1csMapRead ==
  /\ r1cs.phase = "done"
  /\ Len(r1cs.result.reads) = 3
  /\ r1cs.result.reads[3] = wire2label_type

R1csMapBody == sec_offsets(r1cs.file.sections, wire2label_type)
R1csMapSize == sec_sizes(r1cs.file.sections, wire2label_type)

\* C12: the wire map of every accepted file has n_wires entries, the first
\* of them 0; a wire map section that has no entry 0 equal to 0, or whose
\* size is not 8 * n_wires, is answered with an error value, whatever
\* n_wires is.
C12_WireMapInvariant ==
  /\ (r1cs.phase = "done" /\ r1cs.result.kind = "Ok") =>
       /\ Len(r1cs.result.value.wire_mapping)
            = r1cs.result.value.header.n_wires
       /\ r1cs.result.value.wire_mapping[1] = 0
  /\ (R1csMapRead /\ (\/ R1csMapBody = <<>>
                      \/ R1csMapBody[1] # 0
                      \/ R1csMapSize # 8 * R1csHeaderBody.n_wires)) =>
       r1cs.result.kind = "Err"

\* read_constraint_vec: the bytes one vector takes, a count and then an
\* index and a 32-byte coefficient per term
constraint_vec_size(vec) == 4 + Len(vec) * (4 + 32)

\* The bytes the first n_constraints constraints of a section take
RECURSIVE constraints_size(_, _)
constraints_size(body, n_constraints) ==
  IF n_constraints = 0 \/ body = <<>> THEN 0
  ELSE constraint_vec_size(body[1][1]) + constraint_vec_size(body[1][2])
         + constraint_vec_size(body[1][3])
         + constraints_size(Tail(body), n_constraints - 1)

\* The reader has got as far as the constraints section of the file
R1csConstraintsRead ==
  /\ r1cs.phase = "done"
  /\ Len(r1cs.result.reads) >= 2
  /\ r1cs.result.reads[2] = constraint_type

R1csConstraintsBody == sec_offsets(r1cs.file.sections, constraint_type)
R1csConstraintsSize == sec_sizes(r1cs.file.sections, constraint_type)

\* C13: a header, constraints or wire map section whose declared length is
\* not the one the header counts give (32 + field_size, the bytes of
\* n_constraints constraints, 8 * n_wires) is not accepted: the file is
\* answered with a parse error, never with a decoded constraint system.
C13_SectionSizeMismatch ==
  /\ (R1csHeaderRead
        /\ sec_sizes(r1cs.file.sections, header_type)
             # 32 + R1csHeaderBody.field_size) =>
       r1cs.result.kind # "Ok"
  /\ (R1csConstraintsRead
        /\ R1csConstraintsSize
             # constraints_size(R1csConstraintsBody,
                                R1csHeaderBody.n_constraints)) =>
       r1cs.result.kind # "Ok"
  /\ (R1csMapRead /\ R1csMapSize # 8 * R1csHeaderBody.n_wires) =>
       r1cs.result.kind # "Ok"

(***************************************************************************)
(* Claims on loading a program                                             *)
(***************************************************************************)
\* The calling convention a computation in progress follows
WcConvention ==
  IF wc.pc \in {"v1_begin", "v1_inputs", "v1_values", "v1_witness"} THEN 1
  ELSE IF wc.pc \in {"v2_begin", "v2_inputs", "v2_witness"} THEN 2
  ELSE 0

\* C14: a loaded calculator has the version its program's getVersion export
\* returns, 1 if the program has no such export; no step after loading
\* changes the version, and every computation follows the calling
\* convention of the stored version.
C14_VersionNegotiation ==
  /\ [](wc.pc \notin {"unloaded", "failed"} =>
          /\ wc.circom_version = IF wc.exports = <<>> THEN 1
                                 ELSE wc.exports[1]
          /\ WcConvention \in {0, wc.circom_version})
  /\ [][wc.pc # "unloaded" => wc'.circom_version = wc.circom_version]_vars

\* A program without the export has computed a witness the V1 way
C14_Witness ==
  /\ wc.pc = "done"
  /\ wc.result.kind = "Ok"
  /\ wc.exports = <<>>
  /\ wc.circom_version = 1
  /\ wc.trace[Len(wc.trace)] = "getPWitness"

\* C15: a program whose getVersion export returns a value other than 1 and
\* 2 is refused with an error value: loading does not panic and gives no
\* calculator.
C15_UnsupportedVersion ==
  (wc.pc # "unloaded" /\ wc.exports # <<>> /\ wc.exports[1] \notin {1, 2}) =>
    /\ wc.pc = "failed"
    /\ wc.result.kind = "Err"

(***************************************************************************)
(* CircomBuilder and CircomCircuit (circom/builder.rs, circom/circuit.rs)  *)
(*                                                                         *)
(* Field elements are non-negative integers below the modulus.  An Option  *)
(* is a record: some tells None from Some, v is the content.               *)
(***************************************************************************)

\* FpParameters::MODULUS of the scalar field of the curve
modulus == from_biguint(1, Bn254FrBytes)

\* E::Fr::from(BigUint): the integer is reduced modulo the field modulus
Fr_from(biguint) == from_biguint(1, MagMod(biguint.mag, modulus.mag))

\* The conversion with the negation left out: the magnitude is taken as is
element_Abs(w) == [status |-> "ok", v |-> Fr_from(from_biguint(1, w.mag))]

\* calculate_witness_element, the closure of lines 273-281: a negative w is
\* replaced by modulus - |w| (a BigUint subtraction, which panics when
\* |w| > modulus), and the result is made a field element
element(w) ==
  IF w.sign < 0
  THEN IF MagCmp(w.mag, modulus.mag) > 0
       THEN [status |-> "panic", v |-> BigZero]
       ELSE [status |-> "ok",
             v |-> Fr_from(from_biguint(1, MagSub(modulus.mag, w.mag)))]
  ELSE [status |-> "ok", v |-> Fr_from(w)]

\* CircomBuilder::build, the closure of lines 87-95: the same conversion
build_element(w) ==
  IF w.sign < 0
  THEN IF MagCmp(w.mag, modulus.mag) > 0
       THEN [status |-> "panic", v |-> BigZero]
       ELSE [status |-> "ok",
             v |-> Fr_from(from_biguint(1, MagSub(modulus.mag, w.mag)))]
  ELSE [status |-> "ok", v |-> Fr_from(w)]

\* into_iter().map(f).collect() over a raw witness: a panic in one element
\* is the panic of the whole conversion
MapElements(raw, F(_)) ==
  IF \E k \in 1..Len(raw) : F(raw[k]).status = "panic"
  THEN IoPanic("subtraction with a larger subtrahend", <<>>)
  ELSE IoOk([k \in 1..Len(raw) |-> F(raw[k]).v], <<>>)

\* CircomBuilder::setup with the witness of the multiplier's test filled in
setup_WithWitness(b) ==
  [r1cs |-> [b.r1cs EXCEPT !.wire_mapping = None],
   witness |-> Some(<<BigOne, BigFromBytes(<<33>>), Fr3, Fr11>>)]

\* setup with the wire mapping of the configured R1CS left in place
setup_Mapped(b) == [r1cs |-> b.r1cs, witness |-> None]

\* CircomBuilder::setup: the configured R1CS without its wire mapping, and
\* no witness
setup(b) ==
  [r1cs |-> [b.r1cs EXCEPT !.wire_mapping = None], witness |-> None]

\* The variable's value with the wire mapping passed over
variable_value_Unmapped(c, i) ==
  IF ~c.witness.some THEN [status |-> "ok", v |-> BigOne]
  ELSE IF i >= Len(c.witness.v) THEN [status |-> "panic", v |-> BigZero]
  ELSE [status |-> "ok", v |-> c.witness.v[i + 1]]

\* generate_constraints, the closures of lines 35-43 and 47-55: the value of
\* internal variable i, 1 without a witness, else w[m[i]] or w[i]; an index
\* past the end of m or w panics
variable_value(c, i) ==
  IF ~c.witness.some THEN [status |-> "ok", v |-> BigOne]
  ELSE IF c.r1cs.wire_mapping.some
  THEN IF i >= Len(c.r1cs.wire_mapping.v)
       THEN [status |-> "panic", v |-> BigZero]
       ELSE IF c.r1cs.wire_mapping.v[i + 1] >= Len(c.witness.v)
       THEN [status |-> "panic", v |-> BigZero]
       ELSE [status |-> "ok",
             v |-> c.witness.v[c.r1cs.wire_mapping.v[i + 1] + 1]]
  ELSE IF i >= Len(c.witness.v) THEN [status |-> "panic", v |-> BigZero]
  ELSE [status |-> "ok", v |-> c.witness.v[i + 1]]

\* make_index with the boundary index taken for an instance variable
make_index_Le(index, num_inputs) ==
  IF index <= num_inputs THEN [kind |-> "Instance", index |-> index]
  ELSE [kind |-> "Witness", index |-> index - num_inputs]

\* make_index (lines 58-64)
make_index(index, num_inputs) ==
  IF index < num_inputs THEN [kind |-> "Instance", index |-> index]
  ELSE [kind |-> "Witness", index |-> index - num_inputs]

\* make_lc (lines 65-70): the terms (coeff, variable) in the order of lc_data
make_lc(lc_data, num_inputs) ==
  [k \in 1..Len(lc_data) |->
     [coeff |-> lc_data[k][2],
      var |-> make_index(lc_data[k][1], num_inputs)]]

\* The constraint system ConstraintSystem::new_ref() gives: the variable One
\* is instance variable 0
NewConstraintSystem ==
  [instance_assignment |-> <<BigOne>>, witness_assignment |-> <<>>,
   constraints |-> <<>>]

\* CircomCircuit::generate_constraints(self, cs)
generate_constraints(c) ==
  LET n_in == c.r1cs.num_inputs
      n_aux == c.r1cs.num_aux
      inst == [i \in 1..(n_in - 1) |-> variable_value(c, i)]
      aux == [i \in 1..n_aux |-> variable_value(c, i - 1 + n_in)]
  IN IF \/ \E i \in 1..(n_in - 1) : inst[i].status = "panic"
        \/ \E i \in 1..n_aux : aux[i].status = "panic"
     THEN IoPanic("index out of bounds", <<>>)
     ELSE IoOk([instance_assignment |->
                  NewConstraintSystem.instance_assignment
                    \o [i \in 1..(n_in - 1) |-> inst[i].v],
                witness_assignment |-> [i \in 1..n_aux |-> aux[i].v],
                constraints |->
                  [k \in 1..Len(c.r1cs.constraints) |->
                     <<make_lc(c.r1cs.constraints[k][1], n_in),
                       make_lc(c.r1cs.constraints[k][2], n_in),
                       make_lc(c.r1cs.constraints[k][3], n_in)>>]], <<>>)

\* get_public_inputs with the slices started at index 0
get_public_inputs_FromZero(c) ==
  IF ~c.witness.some THEN IoOk(None, <<>>)
  ELSE IF ~c.r1cs.wire_mapping.some
  THEN IF c.r1cs.num_inputs > Len(c.witness.v)
       THEN IoPanic("range end index out of range", <<>>)
       ELSE IoOk(Some(SubSeq(c.witness.v, 1, c.r1cs.num_inputs)), <<>>)
  ELSE LET m == c.r1cs.wire_mapping.v
       IN IF c.r1cs.num_inputs > Len(m)
          THEN IoPanic("range end index out of range", <<>>)
          ELSE IF \E k \in 1..c.r1cs.num_inputs : m[k] >= Len(c.witness.v)
          THEN IoPanic("index out of bounds", <<>>)
          ELSE IoOk(Some([k \in 1..c.r1cs.num_inputs |->
                            c.witness.v[m[k] + 1]]), <<>>)

\* get_public_inputs reading the witness itself whatever the wire mapping
get_public_inputs_Unmapped(c) ==
  IF ~c.witness.some THEN IoOk(None, <<>>)
  ELSE IF c.r1cs.num_inputs < 1
  THEN IoPanic("slice index starts at 1 but ends at 0", <<>>)
  ELSE IF c.r1cs.num_inputs > Len(c.witness.v)
  THEN IoPanic("range end index out of range", <<>>)
  ELSE IoOk(Some(SubSeq(c.witness.v, 2, c.r1cs.num_inputs)), <<>>)

\* CircomCircuit::get_public_inputs
get_public_inputs(c) ==
  IF ~c.witness.some THEN IoOk(None, <<>>)
  ELSE IF ~c.r1cs.wire_mapping.some
  THEN IF c.r1cs.num_inputs < 1
       THEN IoPanic("slice index starts at 1 but ends at 0", <<>>)
       ELSE IF c.r1cs.num_inputs > Len(c.witness.v)
       THEN IoPanic("range end index out of range", <<>>)
       ELSE IoOk(Some(SubSeq(c.witness.v, 2, c.r1cs.num_inputs)), <<>>)
  ELSE LET m == c.r1cs.wire_mapping.v
       IN IF c.r1cs.num_inputs < 1
          THEN IoPanic("slice index starts at 1 but ends at 0", <<>>)
          ELSE IF c.r1cs.num_inputs > Len(m)
          THEN IoPanic("range end index out of range", <<>>)
          ELSE IF \E k \in 2..c.r1cs.num_inputs : m[k] >= Len(c.witness.v)
          THEN IoPanic("index out of bounds", <<>>)
          ELSE IoOk(Some([k \in 1..(c.r1cs.num_inputs - 1) |->
                            c.witness.v[m[k + 1] + 1]]), <<>>)

\* Field addition and multiplication
Fr_add(a, b) == from_biguint(1, MagAddMod(a.mag, b.mag, modulus.mag))
Fr_mul(a, b) ==
  IF Len(a.mag) < Len(b.mag) THEN BigMulMod(b, a, modulus)
  ELSE BigMulMod(a, b, modulus)

\* The value of variable var under the assignments of the system sys
assigned_value(sys, var) ==
  IF var.kind = "Instance" THEN sys.instance_assignment[var.index + 1]
  ELSE sys.witness_assignment[var.index + 1]

\* The value of a linear combination: the sum of coeff * variable
RECURSIVE eval_lc(_, _)
eval_lc(sys, lc) ==
  IF lc = <<>> THEN BigZero
  ELSE Fr_add(Fr_mul(assigned_value(sys, lc[1].var),
                     Fr_from(BigFromBytes(<<lc[1].coeff>>))),
              eval_lc(sys, Tail(lc)))

\* Every variable of the constraints has an assignment in sys
assigned_all(sys) ==
  \A k \in 1..Len(sys.constraints) : \A j \in 1..3 :
    \A t \in 1..Len(sys.constraints[k][j]) :
      LET var == sys.constraints[k][j][t].var
      IN /\ var.index >= 0
         /\ var.index < IF var.kind = "Instance"
                        THEN Len(sys.instance_assignment)
                        ELSE Len(sys.witness_assignment)

\* ConstraintSystem::is_satisfied: a * b = c in every constraint
is_satisfied(sys) ==
  \A k \in 1..Len(sys.constraints) :
    Fr_mul(eval_lc(sys, sys.constraints[k][1]),
           eval_lc(sys, sys.constraints[k][2]))
      = eval_lc(sys, sys.constraints[k][3])

\* CircomBuilder::build: setup, the witness from cfg.wtns (calculated is
\* what calculate_witness returned), the conversion, and in a build with
\* debug assertions the check that the constraints are satisfied
build(b, calculated, debug_assertions) ==
  IF calculated.kind # "Ok" THEN calculated
  ELSE LET witness == MapElements(calculated.value, build_element)
           circom == [setup(b) EXCEPT !.witness = Some(witness.value)]
       IN IF witness.kind # "Ok" THEN witness
          ELSE IF ~debug_assertions THEN IoOk(circom, <<>>)
          ELSE LET sys == generate_constraints(circom)
               IN IF sys.kind # "Ok" THEN sys
                  ELSE IF ~assigned_all(sys.value)
                  THEN IoPanic("index out of bounds", <<>>)
                  ELSE IF ~is_satisfied(sys.value)
                  THEN IoPanic("assertion failed", <<>>)
                  ELSE IoOk(circom, <<>>)

(* The builders and circuits of the model: the multiplier out = a * b over *)
(* the wires <<one, out, a, b>>, decoded from a file with one of two wire  *)
(* maps.                                                                   *)
MaxPushes == 2

WireMaps == {<<0, 1, 2, 3>>, <<0, 2, 1, 3>>}

CircuitFile(map) ==
  [magic |-> R1csMagic, version |-> 1,
   sections |->
     <<[sec_type |-> header_type, sec_size |-> 64, body |-> GoodHeader],
       [sec_type |-> constraint_type, sec_size |-> 120,
        body |-> GoodConstraints],
       [sec_type |-> wire2label_type, sec_size |-> 32, body |-> map]>>]

\* CircomConfig::new: the R1CS decoded from the file
ConfigR1CS(map) ==
  R1CS_from(R1CSFile_new(CircuitFile(map)).value, TRUE).value

Fr33 == BigFromBytes(<<33>>)

\* What calculate_witness can hand back: witnesses of the multiplier with
\* small negative values as read_fr yields them, values at and beyond the
\* modulus as the long form can hold them, and a vector that does not
\* satisfy the constraint
RawWitnesses ==
  { <<BigOne, Fr33, Fr3, Fr11>>,
    <<BigOne, BigNeg(Fr33), BigNeg(Fr3), Fr11>>,
    <<BigOne, BigNeg(Fr33), Fr3, BigNeg(Fr11)>>,
    <<BigOne, BigZero, BigZero, BigZero>>,
    <<BigOne, BigSub(modulus, Fr3), BigNeg(BigOne), Fr3>>,
    <<BigOne, modulus, BigZero, Fr11>>,
    <<BigOne, BigNeg(modulus), BigZero, Fr11>>,
    <<BigOne, BigNeg(BigAdd(modulus, BigOne)), BigOne, BigOne>>,
    <<BigOne, Fr33, Fr3, Fr3>> }

\* Witnesses a CircomCircuit is given directly
CircuitWitnesses ==
  { None, Some(<<BigOne, Fr33, Fr3, Fr11>>), Some(<<BigOne, Fr33, Fr11, Fr3>>),
    Some(<<BigOne, Fr33>>), Some(<<BigOne>>) }

NoOutcome == [IoOk(<<>>, <<>>) EXCEPT !.kind = "None"]
NoCs == [synth |-> NoOutcome, public |-> NoOutcome]
NoCircuit == [origin |-> "none", r1cs |-> <<>>, witness |-> None]

\* CircomBuilder::new(cfg), in a build with or without debug assertions
CircuitInit ==
  /\ \E map \in WireMaps, debug_assertions \in BOOLEAN :
       builder = [r1cs |-> ConfigR1CS(map), inputs |-> <<>>, pushes |-> 0,
                  log |-> <<>>,
                  moved |-> FALSE, raw |-> <<>>, built |-> NoOutcome,
                  element |-> NoOutcome,
                  debug_assertions |-> debug_assertions]
  /\ circuit = NoCircuit
  /\ cs = NoCs
  /\ memory = EmptyMemory
  /\ codec = [phase |-> "idle", val |-> NoFr, tag |-> <<>>, res |-> NoFr]
  /\ r1cs = ReaderIdle
  /\ zkey = ReaderIdle
  /\ wc = NotLoaded
  /\ vm = NotLoaded

\* CircomBuilder::push_input storing the value in place of the name's values
PushInput_Replace(name, val) ==
  /\ ~builder.moved
  /\ circuit.origin = "none"
  /\ builder.element.kind = "None"
  /\ builder.pushes < MaxPushes
  /\ builder' =
       [builder EXCEPT
          !.inputs = IF name \in DOMAIN builder.inputs
                     THEN [builder.inputs EXCEPT ![name] = <<val>>]
                     ELSE builder.inputs @@ (name :> <<val>>),
          !.pushes = @ + 1,
          !.log = Append(@, [name |-> name, val |-> val])]
  /\ UNCHANGED <<circuit, cs, notCircuit>>

\* CircomBuilder::push_input(name, val); builder.log lists the calls made
PushInput(name, val) ==
  /\ ~builder.moved
  /\ circuit.origin = "none"
  /\ builder.element.kind = "None"
  /\ builder.pushes < MaxPushes
  /\ builder' =
       [builder EXCEPT
          !.inputs = IF name \in DOMAIN builder.inputs
                     THEN [builder.inputs EXCEPT ![name] = Append(@, val)]
                     ELSE builder.inputs @@ (name :> <<val>>),
          !.pushes = @ + 1,
          !.log = Append(@, [name |-> name, val |-> val])]
  /\ UNCHANGED <<circuit, cs, notCircuit>>

\* CircomBuilder::setup(&self)
Setup ==
  /\ ~builder.moved
  /\ circuit.origin = "none"
  /\ builder.element.kind = "None"
  /\ circuit' = [origin |-> "setup", r1cs |-> setup(builder).r1cs,
                 witness |-> setup(builder).witness]
  /\ cs' = NoCs
  /\ UNCHANGED <<builder, notCircuit>>

\* CircomBuilder::build(self): the builder is consumed
Build(calculated) ==
  /\ ~builder.moved
  /\ circuit.origin \in {"none", "setup"}
  /\ builder.element.kind = "None"
  /\ LET built == build(builder, calculated, builder.debug_assertions)
     IN /\ builder' = [builder EXCEPT
                         !.moved = TRUE,
                         !.raw = calculated.value,
                         !.built = [built EXCEPT !.value = <<>>]]
        /\ circuit' = IF built.kind = "Ok"
                      THEN [origin |-> "build", r1cs |-> built.value.r1cs,
                            witness |-> built.value.witness]
                      ELSE NoCircuit
  /\ cs' = NoCs
  /\ UNCHANGED notCircuit

\* WitnessCalculator::calculate_witness_element on cfg.wtns
CalculateWitnessElement(calculated) ==
  /\ ~builder.moved
  /\ circuit.origin = "none"
  /\ builder.pushes = 0
  /\ builder.element.kind = "None"
  /\ builder' = [builder EXCEPT
                   !.raw = calculated.value,
                   !.element = IF calculated.kind # "Ok" THEN calculated
                               ELSE MapElements(calculated.value, element)]
  /\ UNCHANGED <<circuit, cs, notCircuit>>

\* CircomCircuit { r1cs, witness }: a circuit put together by the caller
NewCircuit(map, mapped, witness) ==
  /\ circuit.origin = "none"
  /\ builder.pushes = 0
  /\ ~builder.moved
  /\ builder.element.kind = "None"
  /\ circuit' = [origin |-> "new",
                 r1cs |-> IF mapped THEN ConfigR1CS(map)
                          ELSE [ConfigR1CS(map) EXCEPT !.wire_mapping = None],
                 witness |-> witness]
  /\ cs' = NoCs
  /\ UNCHANGED <<builder, notCircuit>>

\* circuit.clone().generate_constraints(cs)
GenerateConstraints ==
  /\ circuit.origin # "none"
  /\ cs.synth.kind = "None"
  /\ cs' = [cs EXCEPT !.synth = generate_constraints(circuit)]
  /\ UNCHANGED <<builder, circuit, notCircuit>>

\* circuit.get_public_inputs()
GetPublicInputs ==
  /\ circuit.origin # "none"
  /\ cs.public.kind = "None"
  /\ cs' = [cs EXCEPT !.public = get_public_inputs(circuit)]
  /\ UNCHANGED <<builder, circuit, notCircuit>>

\* The inputs the tests push: a = 3, b = 11, and a second value for a
Pushes ==
  { [name |-> "a", val |-> Fr3], [name |-> "a", val |-> Fr11],
    [name |-> "b", val |-> Fr11] }

Calculated ==
  {IoOk(raw, <<>>) : raw \in RawWitnesses}
    \cup {IoErr("RuntimeError", "error", FALSE, <<>>)}

NextCircuit ==
  \/ \E push \in Pushes : PushInput(push.name, push.val)
  \/ Setup
  \/ \E calculated \in Calculated : Build(calculated)
  \/ \E calculated \in Calculated : CalculateWitnessElement(calculated)
  \/ \E map \in WireMaps, mapped \in BOOLEAN, witness \in CircuitWitnesses :
       NewCircuit(map, mapped, witness)
  \/ GenerateConstraints
  \/ GetPublicInputs

SpecCircuit == CircuitInit /\ [][NextCircuit]_vars

CircuitTypeOK ==
  /\ circuit.origin \in {"none", "setup", "build", "new"}
  /\ cs.synth.kind \in {"None", "Ok", "Panic"}
  /\ cs.public.kind \in {"None", "Ok", "Panic"}

(***************************************************************************)
(* Claims on the builder and the circuit                                   *)
(***************************************************************************)
\* -modulus < w < modulus
InFieldRange(w) == MagCmp(w.mag, modulus.mag) < 0

\* The field element congruent to w: modulus - |w| for a negative w
Canonical(w) == IF w.sign < 0 THEN BigSub(modulus, BigNeg(w)) ELSE w

\* out is raw, element by element, in canonical form
Normalized(raw, out) ==
  /\ Len(out) = Len(raw)
  /\ \A k \in 1..Len(raw) :
       /\ out[k] = Canonical(raw[k])
       /\ out[k].sign >= 0
       /\ InFieldRange(out[k])
       /\ raw[k].sign < 0 => BigAdd(out[k], BigNeg(raw[k])) = modulus

RawInRange == \A k \in 1..Len(builder.raw) : InFieldRange(builder.raw[k])

\* C16: when every raw value w the calculator returned has
\* -modulus < w < modulus, the witness of the built circuit and the result
\* of calculate_witness_element hold, element by element, modulus - |w| for
\* a negative w and w otherwise: a value in [0, modulus) congruent to w.
C16_NegativeNormalization ==
  /\ (circuit.origin = "build" /\ RawInRange) =>
       /\ circuit.witness.some
       /\ Normalized(builder.raw, circuit.witness.v)
  /\ (builder.element.kind \in {"Ok", "Panic"} /\ RawInRange) =>
       /\ builder.element.kind = "Ok"
       /\ Normalized(builder.raw, builder.element.value)

\* A circuit has been built from a raw witness with a negative value
C16_Witness ==
  /\ circuit.origin = "build"
  /\ RawInRange
  /\ \E k \in 1..Len(builder.raw) : builder.raw[k].sign < 0

\* The internal index of the t-th term of linear combination j of
\* constraint k
TermIndex(k, j, t) == circuit.r1cs.constraints[k][j][t][1]

\* C17: generate_constraints allocates num_inputs - 1 instance variables
\* after the constant one and then num_aux witness variables, and a term
\* with variable index i stands for Instance(i) when i < num_inputs and for
\* Witness(i - num_inputs) otherwise.
C17_VariableLayout ==
  cs.synth.kind = "Ok" =>
    /\ Len(cs.synth.value.instance_assignment) = circuit.r1cs.num_inputs
    /\ Len(cs.synth.value.witness_assignment) = circuit.r1cs.num_aux
    /\ Len(cs.synth.value.constraints) = Len(circuit.r1cs.constraints)
    /\ \A k \in 1..Len(circuit.r1cs.constraints) : \A j \in 1..3 :
         /\ Len(cs.synth.value.constraints[k][j])
              = Len(circuit.r1cs.constraints[k][j])
         /\ \A t \in 1..Len(circuit.r1cs.constraints[k][j]) :
              cs.synth.value.constraints[k][j][t].var
                = IF TermIndex(k, j, t) < circuit.r1cs.num_inputs
                  THEN [kind |-> "Instance", index |-> TermIndex(k, j, t)]
                  ELSE [kind |-> "Witness",
                        index |-> TermIndex(k, j, t)
                                    - circuit.r1cs.num_inputs]

\* The constraints of a built circuit have been generated
C17_Witness ==
  /\ cs.synth.kind = "Ok"
  /\ circuit.origin = "build"
  /\ Len(cs.synth.value.witness_assignment) = 2

\* The value the constraint system holds for internal variable i
AssignedTo(i) ==
  IF i < circuit.r1cs.num_inputs
  THEN cs.synth.value.instance_assignment[i + 1]
  ELSE cs.synth.value.witness_assignment[i - circuit.r1cs.num_inputs + 1]

\* C18: with a witness, internal variable i (1 <= i < num_variables) is
\* assigned witness[wire_mapping[i]] if the circuit has a wire mapping and
\* witness[i] if it has none.
C18_Relabeling ==
  (cs.synth.kind = "Ok" /\ circuit.witness.some) =>
    \A i \in 1..(circuit.r1cs.num_variables - 1) :
      AssignedTo(i)
        = IF circuit.r1cs.wire_mapping.some
          THEN circuit.witness.v[circuit.r1cs.wire_mapping.v[i + 1] + 1]
          ELSE circuit.witness.v[i + 1]

\* The constraints of a circuit with a witness and a wire mapping that is
\* not the identity have been generated
C18_Witness ==
  /\ cs.synth.kind = "Ok"
  /\ circuit.witness.some
  /\ circuit.r1cs.wire_mapping.some
  /\ circuit.r1cs.wire_mapping.v = <<0, 2, 1, 3>>
  /\ circuit.witness.v[2] # circuit.witness.v[3]

\* C19: the circuit setup returns has no witness and the counts and the
\* constraints of the configured R1CS; setup leaves the builder as it was;
\* generate_constraints on that circuit assigns 1 to every instance and
\* witness variable and enforces every constraint of the R1CS.
C19_SetupMode ==
  /\ [](circuit.origin = "setup" =>
          /\ ~circuit.witness.some
          /\ circuit.r1cs.num_inputs = builder.r1cs.num_inputs
          /\ circuit.r1cs.num_aux = builder.r1cs.num_aux
          /\ circuit.r1cs.num_variables = builder.r1cs.num_variables
          /\ circuit.r1cs.constraints = builder.r1cs.constraints
          /\ cs.synth.kind # "None" =>
               /\ cs.synth.kind = "Ok"
               /\ Len(cs.synth.value.instance_assignment)
                    = builder.r1cs.num_inputs
               /\ Len(cs.synth.value.witness_assignment)
                    = builder.r1cs.num_aux
               /\ \A i \in 1..(builder.r1cs.num_variables - 1) :
                    AssignedTo(i) = BigOne
               /\ Len(cs.synth.value.constraints)
                    = Len(builder.r1cs.constraints))
  /\ [][(circuit.origin = "none" /\ circuit'.origin = "setup") =>
          builder' = builder]_vars

\* The constraints of a setup circuit have been generated after inputs
\* were pushed
C19_Witness ==
  /\ circuit.origin = "setup"
  /\ cs.synth.kind = "Ok"
  /\ builder.pushes > 0

\* The circuit's witness has a value for every variable, whatever the wire
\* mapping sends it to
WitnessComplete ==
  /\ circuit.witness.some
  /\ Len(circuit.witness.v) >= circuit.r1cs.num_variables

\* C20: get_public_inputs gives None for a circuit without a witness;
\* with a witness it gives num_inputs - 1 values, the k-th (from 0) being
\* witness[k + 1], or witness[wire_mapping[k + 1]] with a wire mapping.
C20_PublicInputs ==
  /\ (cs.public.kind # "None" /\ ~circuit.witness.some) =>
       (cs.public.kind = "Ok" /\ cs.public.value = None)
  /\ (cs.public.kind # "None" /\ WitnessComplete) =>
       /\ cs.public.kind = "Ok"
       /\ cs.public.value.some
       /\ Len(cs.public.value.v) = circuit.r1cs.num_inputs - 1
       /\ \A k \in 0..(circuit.r1cs.num_inputs - 2) :
            cs.public.value.v[k + 1]
              = IF circuit.r1cs.wire_mapping.some
                THEN circuit.witness.v[circuit.r1cs.wire_mapping.v[k + 2] + 1]
                ELSE circuit.witness.v[k + 2]

\* The public input of a circuit whose wire mapping moves wire 1 has been
\* asked for
C20_Witness ==
  /\ cs.public.kind = "Ok"
  /\ WitnessComplete
  /\ circuit.r1cs.wire_mapping.some
  /\ circuit.r1cs.wire_mapping.v[2] = 2
  /\ cs.public.value.v = <<circuit.witness.v[3]>>

(***************************************************************************)
(* Claims on the matrices of the proving key                               *)
(***************************************************************************)
\* The content of the first section of the file read that carries the id
ZkeyFirstBody(id) ==
  LET sections == zkey.file.sections
      i == CHOOSE k \in 1..Len(sections) :
             /\ sections[k].id = id
             /\ \A j \in 1..(k - 1) : sections[j].id # id
  IN sections[i].body

\* The file has been read and the key and the matrices returned
ZkeyMatricesRead == zkey.phase = "done" /\ zkey.result.kind = "Ok"

\* The coefficient entries the section's count covers, in file order
ZkeyEntries ==
  SubSeq(ZkeyFirstBody(4).coeffs, 1, ZkeyFirstBody(4).num_coeffs)

\* The largest row index among the entries
ZkeyMaxRow ==
  SetMax({0} \cup {ZkeyEntries[k].constraint : k \in 1..Len(ZkeyEntries)})

\* The largest row index less the number of public inputs
ZkeyNumConstraints == ZkeyMaxRow - ZkeyFirstBody(2).n_public

\* The entries of row r of matrix m, decoded, in file order
ZkeyAccumulated(m, r) ==
  LET hits == SelectSeq(ZkeyEntries,
                        LAMBDA c : c.matrix = m /\ c.constraint = r)
  IN [k \in 1..Len(hits) |->
        <<BigMulMod(r_inv, hits[k].value, prime), hits[k].signal>>]

RECURSIVE SumLen(_)
SumLen(rows) == IF rows = <<>> THEN 0 ELSE Len(rows[1]) + SumLen(Tail(rows))

\* A and B have num_constraints rows and the counts of their entries
ZkeyMatrixCounts ==
  LET m == zkey.result.value[2]
  IN /\ m.num_constraints = ZkeyNumConstraints
     /\ Len(m.a) = ZkeyNumConstraints
     /\ Len(m.b) = ZkeyNumConstraints
     /\ m.a_num_non_zero = SumLen(m.a)
     /\ m.b_num_non_zero = SumLen(m.b)

GivenIsMap ==
  \A j, k \in 1..Len(wc.given) :
    wc.given[j].name = wc.given[k].name => j = k

GivenHas(name) == \E k \in 1..Len(wc.given) : wc.given[k].name = name

\* The value the map gives the name, zero for a name it does not hold
GivenValue(name) ==
  IF GivenHas(name)
  THEN wc.given[CHOOSE k \in 1..Len(wc.given) : wc.given[k].name = name].values[1]
  ELSE BigZero

\* The witness of out = a * b for the map given, whatever the order of its
\* names and whatever the instance computed before
GivenWitness ==
  << BigOne,
     IF GivenHas("a") /\ GivenHas("b")
     THEN BigMulMod(GivenValue("a"), GivenValue("b"), prime)
     ELSE BigZero,
     GivenValue("a"),
     GivenValue("b") >>

\* C22: the result of calculate_witness is a function of the program, the
\* calling convention and the map of named inputs alone: it depends neither
\* on the order the names are iterated in nor on the calls the instance
\* served before, so two calls given the same map return the same vector.
C22_WitnessDeterminism ==
  (wc.pc = "done" /\ GivenIsMap) =>
    /\ wc.result.kind
         = IF wc.circom_version = 1 /\ UnknownNameGiven THEN "Err" ELSE "Ok"
    /\ wc.result.kind = "Ok" => wc.result.w = GivenWitness

\* The second computation of an instance has returned the witness of a map
\* whose names came in the order b, a
C22_Witness ==
  /\ wc.pc = "done"
  /\ wc.calls = 2
  /\ wc.result.kind = "Ok"
  /\ Len(wc.given) = 2
  /\ wc.given[1].name = "b"
  /\ wc.given[2].name = "a"
  /\ wc.result.w[2] = BigFromBytes(<<33>>)

(***************************************************************************)
(* Claims on the inputs of the builder                                     *)
(***************************************************************************)
\* The values the calls of push_input gave the name, in call order
ValuesPushed(name) ==
  LET hits == SelectSeq(builder.log, LAMBDA push : push.name = name)
  IN [k \in 1..Len(hits) |-> hits[k].val]

\* C23: inputs holds the names pushed, and under each name the values
\* pushed under it in call order; a push appends one value to its name and
\* leaves the values of every other name as they were.
C23_InputAccumulation ==
  /\ [](/\ DOMAIN builder.inputs
             = {builder.log[k].name : k \in 1..Len(builder.log)}
        /\ \A name \in DOMAIN builder.inputs :
             builder.inputs[name] = ValuesPushed(name))
  /\ [][\A name \in DOMAIN builder.inputs :
          /\ name \in DOMAIN builder'.inputs
          /\ \/ builder'.inputs[name] = builder.inputs[name]
             \/ /\ builder'.log[Len(builder'.log)].name = name
                /\ builder'.inputs[name]
                     = Append(builder.inputs[name],
                              builder'.log[Len(builder'.log)].val)]_vars

\* Two values have been pushed under one name and both are kept, in order
C23_Witness ==
  /\ builder.pushes = 2
  /\ "a" \in DOMAIN builder.inputs
  /\ builder.inputs["a"] = <<Fr3, Fr11>>

(***************************************************************************)
(* Claims on the conversion of a decoded file                              *)
(***************************************************************************)
\* C24: the R1CS made from a decoded file has num_inputs = 1 + n_pub_in +
\* n_pub_out, num_variables = n_wires, and num_variables = num_inputs +
\* num_aux with num_aux a count that is not negative, also for a header
\* with n_wires < 1 + n_pub_in + n_pub_out; its wire mapping sends wire 0
\* to label 0.
C24_CountInvariant ==
  (r1cs.phase = "converted" /\ r1cs.converted.kind = "Ok") =>
    LET header == r1cs.result.value.header
        made == r1cs.converted.value
    IN /\ made.num_inputs = 1 + header.n_pub_in + header.n_pub_out
       /\ made.num_variables = header.n_wires
       /\ made.num_aux >= 0
       /\ made.num_variables = made.num_inputs + made.num_aux
       /\ made.wire_mapping.some
       /\ made.wire_mapping.v[1] = 0

(***************************************************************************)
(* Claims on the order of the calls of a computation                       *)
(***************************************************************************)
InputExports ==
  {"getSignalOffset32", "setSignal", "writeSharedRWMemory", "setInputSignal"}
ElementExports == {"getPWitness", "getWitness", "readSharedRWMemory"}

\* A computation is in progress or has just returned
WcComputing == wc.pc \notin {"unloaded", "failed", "idle"}

RECURSIVE CountValues(_)
CountValues(inputs) ==
  IF inputs = <<>> THEN 0
  ELSE Len(Head(inputs).values) + CountValues(Tail(inputs))

TraceCount(names) ==
  Cardinality({k \in 1..Len(wc.trace) : wc.trace[k] \in names})

\* init comes first, no input is set once an element has been read, every
\* value given has been set by then, and the elements read are the
\* program's signals 0, 1, ... in this order
WcCallOrder ==
  /\ wc.trace # <<>>
  /\ wc.trace[1] = "init"
  /\ \A j, k \in 1..Len(wc.trace) :
       (j < k /\ wc.trace[j] \in ElementExports) =>
         wc.trace[k] \notin InputExports
  /\ TraceCount(ElementExports) > 0 =>
       TraceCount({"setSignal", "setInputSignal"}) = CountValues(wc.given)
  /\ \A k \in 1..Len(wc.w) : wc.w[k] = vm.signals[k]

\* The program has reported a failure through one of its two callbacks
WcFailureReported ==
  \E k \in 1..Len(wc.trace) : wc.trace[k] \in {"error", "exceptionHandler"}

\* C25: in every calculate_witness call init is invoked before any
\* input-setting export, every input-setting export before any witness
\* element is read, and the elements are read in the order 0, 1, ..., n-1;
\* the vector returned has n elements, n being the program's getNVars or
\* getWitnessSize; a failure at any step returns an error and no vector.
C25_CallOrder ==
  WcComputing =>
    /\ WcCallOrder
    /\ (wc.pc = "done" /\ wc.result.kind = "Ok") => Len(wc.result.w) = VmNVars
    /\ (wc.pc = "done" /\ WcFailureReported) =>
         (wc.result.kind = "Err" /\ wc.result.w = <<>>)

\* The order of the calls alone
C25_OrderOnly == WcComputing => WcCallOrder

(***************************************************************************)
(* Claims on the shared buffer of the V2 calling convention                *)
(***************************************************************************)
\* Word j, from 0 at the least significant end, of a value of n32 words
WordOf(v, j) == SubSeq(MagPad(v.mag, 4 * n32), 4 * j + 1, 4 * j + 4)

\* The buffer read out as the host reads it: index j into place n32 - 1 - j
SharedReversed(shared) == [k \in 1..n32 |-> shared[n32 - (k - 1)]]

\* C26: handing a value v over on V2, the host writes the n32 words of the
\* buffer, index j getting the j-th least significant word of v, and then
\* calls setInputSignal once; a witness element read is the sum of
\* buffer[j] * 2^(32 j); a value written through to_array32 comes back
\* unchanged through from_array32 under the same reversal.
C26_SharedBuffer ==
  [][/\ (wc.pc = "v2_inputs" /\ wc'.pc = "v2_inputs") =>
          LET v == Head(Head(SkipEmpty(wc.inputs)).values)
              calls == SubSeq(wc'.trace, Len(wc.trace) + 1, Len(wc'.trace))
          IN /\ \A j \in 0..(n32 - 1) : vm'.shared[j + 1] = WordOf(v, j)
             /\ SubSeq(calls, 1, n32 + 1)
                  = Rep(n32, "writeSharedRWMemory") \o <<"setInputSignal">>
             /\ \A k \in (n32 + 2)..Len(calls) : calls[k] # "setInputSignal"
             /\ from_array32(SharedReversed(vm'.shared)) = v
     /\ (wc.pc = "v2_witness" /\ wc'.i = wc.i + 1) =>
          wc'.w[wc'.i] = VmSharedValue(vm'.shared)]_vars

\* A value of eight different words has just been handed to the program
C26_Witness ==
  /\ wc.pc = "v2_inputs"
  /\ wc.trace # <<>>
  /\ wc.trace[Len(wc.trace)] = "setInputSignal"
  /\ VmSharedValue(vm.shared) = FrMinusOne

(***************************************************************************)
(* Claims on the bump allocator                                            *)
(***************************************************************************)
\* The length of the runs of allocations followed from a state
MaxAllocs == 3

AllocKinds == {"u32", "fr"}

\* The bytes an allocation of the kind reserves
AllocSize(kind) == IF kind = "u32" THEN 8 ELSE 4 * n32 + 8

RECURSIVE AllocRun(_, _)
\* alloc_u32 / alloc_fr called in the order of kinds, with no set_free_pos
\* between them: the pointer each call returned and the free position it left
AllocRun(mem, kinds) ==
  IF kinds = <<>> THEN <<>>
  ELSE Bind(IF Head(kinds) = "u32" THEN alloc_u32(mem) ELSE alloc_fr(mem),
            LAMBDA a : <<[p |-> a.p, size |-> AllocSize(Head(kinds)),
                          free |-> free_pos(a.mem)]>>
                       \o AllocRun(a.mem, Tail(kinds)))

\* The scratch slots of the V1 convention are allocated
V1Allocated == wc.pc \in {"v1_inputs", "v1_values", "v1_witness"}

\* C27: the free position is the u32 at offset 0; alloc_u32 returns it and
\* advances it by 8, alloc_fr returns it and advances it by 4 * n32 + 8; the
\* pointers a run of allocations returns are strictly increasing and the
\* regions allocated are pairwise disjoint, and the V1 scratch slots
\* p_sig_offset and p_fr do not overlap.  The runs are followed from the
\* memories calculate_witness_circom1 is entered with.
C27_BumpAllocator ==
  /\ free_pos(memory) = U32Nat(MemRead(memory, 0, 4))
  /\ wc.pc = "v1_begin" =>
     \A kinds \in [1..MaxAllocs -> AllocKinds] :
       \E run \in {AllocRun(memory, kinds)} :
          /\ run[1].p = free_pos(memory)
          /\ \A i \in 1..MaxAllocs :
               /\ run[i].free = run[i].p + run[i].size
               /\ i > 1 => run[i].p = run[i - 1].free
          /\ \A i, j \in 1..MaxAllocs :
               i < j => /\ run[i].p < run[j].p
                        /\ run[i].p + run[i].size <= run[j].p
  /\ V1Allocated =>
       /\ wc.p_sig_offset + AllocSize("u32") <= wc.p_fr
       /\ wc.p_fr + AllocSize("fr") <= free_pos(memory)
       /\ wc.p_sig_offset >= wc.old_mem_free_pos

\* The second computation of an instance has its scratch slots above those
\* the first one, which failed, left allocated
C27_Witness ==
  /\ V1Allocated
  /\ wc.calls = 2
  /\ wc.p_sig_offset = FreeStart + AllocSize("u32") + AllocSize("fr")
  /\ wc.p_fr = wc.p_sig_offset + 8

(***************************************************************************)
(* Claims on the wire mapping of the circuits the builder returns          *)
(***************************************************************************)
\* The circuit came out of CircomBuilder::setup or CircomBuilder::build
FromBuilder == circuit.origin \in {"setup", "build"}

\* What generate_constraints assigned is the witness read without a mapping
SynthUnmapped ==
  LET n_in == circuit.r1cs.num_inputs
      sys == cs.synth.value
  IN /\ Len(sys.instance_assignment) = n_in
     /\ Len(sys.witness_assignment) = circuit.r1cs.num_aux
     /\ \A i \in 1..(n_in - 1) :
          sys.instance_assignment[i + 1] = circuit.witness.v[i + 1]
     /\ \A i \in 1..circuit.r1cs.num_aux :
          sys.witness_assignment[i] = circuit.witness.v[i + n_in]

\* C28: every circuit returned by setup or build has wire_mapping = None
\* although the decoded file supplied a wire map, so that
\* generate_constraints and get_public_inputs read witness[i] and never
\* witness[wire_mapping[i]]; the builder's cfg.r1cs keeps its mapping.
C28_WireMappingDropped ==
  /\ [](FromBuilder =>
          /\ circuit.r1cs.wire_mapping = None
          /\ builder.r1cs.wire_mapping.some
          /\ builder.r1cs.wire_mapping.v \in WireMaps
          /\ (cs.synth.kind = "Ok" /\ circuit.witness.some) => SynthUnmapped
          /\ (cs.public.kind = "Ok" /\ circuit.witness.some) =>
               cs.public.value
                 = Some(SubSeq(circuit.witness.v, 2, circuit.r1cs.num_inputs)))
  /\ [][builder'.r1cs = builder.r1cs]_vars

\* A built circuit whose configuration maps wire 1 to label 2 has been
\* synthesized and asked for its public inputs, and its witness holds
\* another value at index 2 than at index 1
C28_Witness ==
  /\ circuit.origin = "build"
  /\ builder.r1cs.wire_mapping = Some(<<0, 2, 1, 3>>)
  /\ cs.synth.kind = "Ok"
  /\ cs.public.kind = "Ok"
  /\ circuit.witness.v[2] # circuit.witness.v[3]

(***************************************************************************)
(* Claims on the public inputs and the synthesized instance                *)
(***************************************************************************)
\* Both generate_constraints and get_public_inputs have returned for a
\* circuit with a witness
BothReturned ==
  /\ circuit.witness.some
  /\ cs.synth.kind = "Ok"
  /\ cs.public.kind = "Ok"

\* C29: for a circuit with a witness, with or without a wire mapping, the
\* k-th value of get_public_inputs is the value generate_constraints
\* assigns to the k-th instance variable it allocates (internal index
\* k + 1), for 0 <= k < num_inputs - 1, and there are as many of the one as
\* of the other.
C29_PublicInputsAgree ==
  BothReturned =>
    /\ cs.public.value.some
    /\ Len(cs.public.value.v) = circuit.r1cs.num_inputs - 1
    /\ Len(cs.synth.value.instance_assignment) - 1 = Len(cs.public.value.v)
    /\ \A k \in 0..(circuit.r1cs.num_inputs - 2) :
         cs.public.value.v[k + 1] = cs.synth.value.instance_assignment[k + 2]

\* Both have returned for a circuit whose wire mapping moves wire 1 and
\* whose witness holds another value at index 1 than at index 2
C29_Witness ==
  /\ BothReturned
  /\ circuit.r1cs.wire_mapping = Some(<<0, 2, 1, 3>>)
  /\ circuit.r1cs.num_inputs = 2
  /\ circuit.witness.v[2] # circuit.witness.v[3]
  /\ cs.public.value.v = <<circuit.witness.v[3]>>

(***************************************************************************)
(* Containers that list a section id more than once, opened by the two     *)
(* readers: R1CSFile::new on a constraint-description file and read_zkey   *)
(* on a proving key.                                                       *)
(***************************************************************************)
\* The complete constraint-description file with one more section, before
\* or after the others
R1csRepeatFile(more, before) ==
  LET complete ==
        << [sec_type |-> header_type, sec_size |-> 64, body |-> GoodHeader],
           [sec_type |-> constraint_type, sec_size |-> 120,
            body |-> GoodConstraints],
           [sec_type |-> wire2label_type, sec_size |-> 32,
            body |-> <<0, 1, 2, 3>>] >>
  IN [magic |-> R1csMagic, version |-> 1,
      sections |-> IF before THEN <<more>> \o complete
                   ELSE complete \o <<more>>]

NextRepeat ==
  \/ /\ r1cs.phase = "idle"
     /\ \E more \in R1csSectionPool, before \in BOOLEAN :
          R1CSFileNew(R1csRepeatFile(more, before))
  \/ \E overflow_checks \in BOOLEAN : IntoR1CS(overflow_checks)
  \/ \E header \in {GoodGrothHeader, NoPublicHeader},
        body \in ZkeyCoeffBodies, before \in BOOLEAN :
       ReadZkey(ZkeyRepeatFile(header, body, before))

SpecRepeat == R1csInit /\ [][NextRepeat]_vars

\* The indices of the entries that are the first, or the last, of their id
\* in the table ids
FirstOf(ids) == {i \in 1..Len(ids) : \A j \in 1..(i - 1) : ids[j] # ids[i]}
LastOf(ids) ==
  {i \in 1..Len(ids) : \A j \in (i + 1)..Len(ids) : ids[j] # ids[i]}

\* The entries of s at the indices of keep, in their order
Kept(s, keep) ==
  [k \in 1..Cardinality(keep) |->
     s[CHOOSE i \in keep : Cardinality({j \in keep : j <= i}) = k]]

\* The constraint-description file read, with the last section of each type
\* alone
R1csLastOnly ==
  LET sections == r1cs.file.sections
  IN [r1cs.file EXCEPT
        !.sections =
          Kept(sections,
               LastOf([i \in 1..Len(sections) |-> sections[i].sec_type]))]

\* The proving key read, with the first section of each id alone
ZkeyFirstOnly ==
  LET sections == zkey.file.sections
  IN [zkey.file EXCEPT
        !.sections =
          Kept(sections, FirstOf([i \in 1..Len(sections) |-> sections[i].id]))]

\* The last section of the type in the constraint-description file read
R1csLastSection(sec_type) ==
  LET sections == r1cs.file.sections
  IN sections[CHOOSE i \in 1..Len(sections) :
                /\ sections[i].sec_type = sec_type
                /\ \A j \in (i + 1)..Len(sections) :
                     sections[j].sec_type # sec_type]

\* C30: of the sections of one type id a container lists, the
\* constraint-description reader decodes the last and the proving-key reader
\* the first; the section table of either reader is built when the
\* container is opened and no later decode changes it.
C30_DuplicateSections ==
  /\ [](r1cs.phase # "idle" =>
          /\ r1cs.result = R1CSFile_new(R1csLastOnly)
          /\ r1cs.result.kind = "Ok" =>
               /\ r1cs.result.value.header.n_wires
                    = R1csLastSection(header_type).body.n_wires
               /\ r1cs.result.value.wire_mapping
                    = R1csLastSection(wire2label_type).body)
  /\ [](zkey.phase # "idle" =>
          /\ zkey.result = read_zkey(ZkeyFirstOnly)
          /\ zkey.result.kind = "Ok" =>
               /\ Len(zkey.result.value[1].a_query) = ZkeyFirstBody(2).n_vars
               /\ zkey.result.value[2].num_instance_variables
                    = ZkeyFirstBody(2).n_public + 1
               /\ zkey.result.value[2].num_constraints = ZkeyNumConstraints)
  /\ [][/\ r1cs.phase # "idle" => r1cs'.file = r1cs.file
        /\ zkey.phase # "idle" => zkey'.file = zkey.file]_vars

\* Both readers have returned from a container that lists a header twice:
\* the constraint-description reader went by the second, the proving-key
\* reader by the first
C30_Witness ==
  /\ r1cs.phase = "converted"
  /\ r1cs.result.kind = "Ok"
  /\ Len(r1cs.file.sections) = 4
  /\ r1cs.file.sections[1].sec_type = header_type
  /\ r1cs.file.sections[1].body.n_wires = 1
  /\ r1cs.result.value.header.n_wires = 4
  /\ zkey.phase = "done"
  /\ zkey.result.kind = "Ok"
  /\ zkey.file.sections[1].body = NoPublicHeader
  /\ zkey.file.sections[4].body = GoodGrothHeader
  /\ Len(zkey.result.value[1].a_query) = 3

=============================================================================
